---- MODULE Spec2Model ----
(***************************************************************************)
(* Development-mode gateway of the NeMo Agent Toolkit UI: the HTTP and     *)
(* WebSocket dispatcher (proxy/server.js), its Context-Aware RAG init      *)
(* tracker, the SSRF path validators, the response processors             *)
(* (proxy/response-processors.js), the chat payload builders               *)
(* (proxy/request-transformers.js) and the shutdown of the process.        *)
(*                                                                         *)
(* Paths are sequences of segments, the result of splitting the path       *)
(* string on "/": "/api/chat/stream" is <<"", "api", "chat", "stream">>,   *)
(* "/api/" is <<"", "api", "">>, "http://h/x" is <<"http:", "", "h", "x">>.*)
(***************************************************************************)
EXTENDS Integers, Sequences, FiniteSets, TLC

VARIABLES
  initializedCaRagConversations, \* server.js:86  the process-wide Set
  reqs,                          \* one record per inbound HTTP request / upgrade
  wsPublicPath,                  \* constants/index.js:21 WEBSOCKET_PROXY_PATH (env WS_PUBLIC_PATH)
  vPath, vResult,                \* the validators' input and results
  proc,                          \* the response processor that runs
  backendRes,                    \* its backendRes: status and body text
  pending,                       \* body text reader.read() has not delivered yet
  buffer,                        \* response-processors.js:118, 221  let buffer
  res,                           \* its res: the client response
  ppc,                           \* where the processor is
  sawDone,                       \* history: the DONE branch was taken
  bArgs,                         \* request-transformers.js: a builder's arguments
  built,                         \* the payload it returned
  isShuttingDown,                \* server.js:423  let isShuttingDown
  sigListeners,                  \* server.js:451-452  signals that still have a listener
  srv,                           \* the http server, its connections and the exit timer
  exited,                        \* how the process has ended, "no" while it runs
  sInput,                        \* settingsValidation.ts: the jsonString a validator is given
  sResult,                       \* what it returned
  modal,                         \* InteractionModal: props, state, ref and the calls it made
  guide,                         \* PromptSuggestions: props, state and the calls it made
  streams                          \* streaming processors running at once, one per connection

gwVars == <<initializedCaRagConversations, reqs, wsPublicPath>>
valVars == <<vPath, vResult>>
procVars == <<proc, backendRes, pending, buffer, res, ppc, sawDone>>
buildVars == <<bArgs, built>>
exitVars == <<isShuttingDown, sigListeners, srv, exited>>
uiVars == <<sInput, sResult, modal, guide, streams>>
vars == <<initializedCaRagConversations, reqs, wsPublicPath, vPath, vResult,
          proc, backendRes, pending, buffer, res, ppc, sawDone,
          bArgs, built, isShuttingDown, sigListeners, srv, exited,
          sInput, sResult, modal, guide, streams>>

-----------------------------------------------------------------------------
(* Bounds of the model *)

\* concurrent /call requests of the init-tracker specification
MaxReqs == 2
\* inbound requests and upgrades of the full-routing specification
MaxGwReqs == 1
\* longest path, in segments, fed to the validators
MaxSegs == 4

-----------------------------------------------------------------------------
(* constants/index.js *)

HTTP_PROXY_PATH == <<"", "api">>
WEBSOCKET_BACKEND_PATH == <<"", "websocket">>

CHAT_STREAM == <<"", "chat", "stream">>
CHAT == <<"", "chat">>
GENERATE_STREAM == <<"", "generate", "stream">>
GENERATE == <<"", "generate">>
CA_RAG_INIT == <<"", "init">>
CHAT_CA_RAG == <<"", "call">>
UPDATE_DATA_STREAM == <<"", "update-data-stream">>
MCP_CLIENT_TOOL_LIST == <<"", "mcp", "client", "tool", "list">>
FEEDBACK == <<"", "feedback">>

CORE_ROUTES == {CHAT_STREAM, CHAT, GENERATE_STREAM, GENERATE, MCP_CLIENT_TOOL_LIST}
EXTENDED_ROUTES == {CA_RAG_INIT, CHAT_CA_RAG, UPDATE_DATA_STREAM, FEEDBACK}

\* EXTENDED_BACKEND_TARGETS[path]; a path that is no key yields undefined
EXTENDED_BACKEND_TARGETS(path) ==
  CASE path = CA_RAG_INIT -> "NAT_BACKEND"
    [] path = CHAT_CA_RAG -> "NAT_BACKEND"
    [] path = UPDATE_DATA_STREAM -> "NEXTJS"
    [] path = FEEDBACK -> "NAT_BACKEND"
    [] OTHER -> "undefined"

ALLOWED_PATHS == CORE_ROUTES \cup EXTENDED_ROUTES

HTTP_METHOD_OPTIONS == "OPTIONS"

\* server.js:87  process.env.RAG_UUID || '123456'
RAG_UUID == "123456"

-----------------------------------------------------------------------------
(* Strings as segment sequences *)

\* s.startsWith(prefix + '/'): the prefix's segments, then at least one more
StartsWithSlash(s, prefix) ==
  /\ Len(s) > Len(prefix)
  /\ SubSeq(s, 1, Len(prefix)) = prefix

\* s.substring(prefix.length), for s that starts with prefix + '/'
StripPrefix(s, prefix) == <<"">> \o SubSeq(s, Len(prefix) + 1, Len(s))

-----------------------------------------------------------------------------
(* utils/security/url-validation: validateProxyHttpPath and                *)
(* validateProxyWebSocketPath. The module is required by server.js:21-24   *)
(* and is not among the sources; its contract is modelled here.            *)

\* segments that carry a URL scheme
SchemeSegments == {"http:", "https:"}

HasTraversal(p) == \E i \in 1..Len(p) : p[i] = ".."
HasScheme(p) == \E i \in 1..Len(p) : p[i] \in SchemeSegments
\* "//" inside the path: an embedded host
HasEmbeddedHost(p) == \E i \in 2..(Len(p) - 1) : p[i] = ""
\* a relative path starts with "/"
IsRelativePath(p) == Len(p) >= 2 /\ p[1] = ""

WellFormedPath(p) ==
  /\ IsRelativePath(p)
  /\ ~HasTraversal(p)
  /\ ~HasScheme(p)
  /\ ~HasEmbeddedHost(p)

\* faulty variant: the traversal check is missing
validateProxyWebSocketPathNoTraversal(p) ==
  IF IsRelativePath(p) /\ ~HasScheme(p) /\ ~HasEmbeddedHost(p)
    THEN [isValid |-> TRUE, error |-> ""]
    ELSE [isValid |-> FALSE, error |-> "Invalid WebSocket path"]

validateProxyWebSocketPath(p) ==
  IF WellFormedPath(p)
    THEN [isValid |-> TRUE, error |-> ""]
    ELSE [isValid |-> FALSE, error |-> "Invalid WebSocket path"]

validateProxyHttpPath(p) ==
  IF ~WellFormedPath(p)
    THEN [isValid |-> FALSE, error |-> "Invalid path"]
  ELSE IF ~StartsWithSlash(p, HTTP_PROXY_PATH)
    THEN [isValid |-> FALSE, error |-> "Path outside the proxy prefix"]
  ELSE IF StripPrefix(p, HTTP_PROXY_PATH) \notin ALLOWED_PATHS
    THEN [isValid |-> FALSE, error |-> "Path not allowed"]
  ELSE [isValid |-> TRUE, error |-> ""]

-----------------------------------------------------------------------------
(* server.js: the gateway *)

NoHeader == "(absent)"

\* server.js:243  req.headers['conversation-id'] || 'default'
ConversationId(header) ==
  IF header = NoHeader \/ header = "" THEN "default" ELSE header

\* faulty variant: the key is the backend instance alone
InitKeyIgnoresConversation(header) == <<RAG_UUID, "default">>

\* server.js:244  `${RAG_UUID}-${conversationId}`
InitKey(header) == <<RAG_UUID, ConversationId(header)>>

\* server.js:36-61  `${upstream.protocol}//${upstream.host}` of NAT_BACKEND_URL.
\* A URL text is a sequence of tokens: the scheme, "//", the pieces of the
\* authority, then "/" and segments, then a query string.
UPSTREAM_HTTP_ORIGIN == <<"http:", "//", "backend:8000">>
\* server.js:67-68  NEXT_INTERNAL_URL, 'http://localhost:3099' when unset
NEXT_DEV_TARGET == <<"http:", "//", "localhost:3099">>

\* the text of a path given by its segments: the segments joined by "/"
RECURSIVE PathText(_)
PathText(p) ==
  IF p = <<>> THEN <<>>
  ELSE (IF Head(p) = "" THEN <<>> ELSE <<Head(p)>>)
       \o (IF Len(p) > 1 THEN <<"/">> ELSE <<>>)
       \o PathText(Tail(p))

\* query strings, "?" included: each is one token
QueryTexts == {"?session=abc", "?next=//evil.com"}

SearchText(search) == IF search = "" THEN <<>> ELSE <<search>>

\* what fetch() connects to: the scheme and the authority of the URL text,
\* the authority ending at the first "/" or at the query string
UrlOrigin(text) ==
  LET ends == {i \in 3..Len(text) : text[i] = "/" \/ text[i] \in QueryTexts}
  IN IF ends = {} THEN text
     ELSE SubSeq(text, 1, (CHOOSE i \in ends : \A j \in ends : i <= j) - 1)

\* faulty variant: the prefix is cut one character too far, the path loses
\* its leading slash
TargetUrlCutsSlash(backendPath, search) ==
  UPSTREAM_HTTP_ORIGIN \o Tail(PathText(backendPath)) \o SearchText(search)

\* server.js:201-205  `${UPSTREAM_HTTP_ORIGIN}${backendPath}${parsedUrl.search || ''}`
TargetUrl(backendPath, search) ==
  UPSTREAM_HTTP_ORIGIN \o PathText(backendPath) \o SearchText(search)

\* server.js:247-250  new URL(EXTENDED_ROUTES.CA_RAG_INIT, UPSTREAM_HTTP_ORIGIN)
InitUrl == UPSTREAM_HTTP_ORIGIN \o PathText(CA_RAG_INIT)

\* response.ok of fetch: a status in 200..299
Ok(status) == status >= 200 /\ status <= 299

\* a request that has not arrived yet. `after` is history: the requests whose
\* handling had finished when this one arrived.
IdleReq ==
  [pc |-> "idle", kind |-> "none", method |-> "", pathname |-> <<>>,
   conv |-> NoHeader, route |-> "", out |-> {}, url |-> <<>>,
   initResult |-> "none", initStatus |-> 0,
   status |-> 0, body |-> "", sockWrite |-> "", destroyed |-> FALSE,
   after |-> {}, search |-> "", fwdSearch |-> "", headers |-> {},
   threw |-> FALSE, target |-> <<>>]

\* server.js:131-135  the headers set on a backend-sourced response
BackendCorsHeaders ==
  {"Access-Control-Allow-Origin", "Access-Control-Allow-Credentials"}

\* server.js:181-184  the headers of the preflight response
PreflightHeaders ==
  BackendCorsHeaders \cup
    {"Access-Control-Allow-Methods", "Access-Control-Allow-Headers"}

\* faulty variant: the path is validated before the preflight method is looked at
RouteValidatesFirst(method, pathname) ==
  IF ~StartsWithSlash(pathname, HTTP_PROXY_PATH) THEN "nextjs"
  ELSE IF ~validateProxyHttpPath(pathname).isValid THEN "forbidden"
  ELSE IF method = HTTP_METHOD_OPTIONS THEN "preflight"
  ELSE LET backendPath == StripPrefix(pathname, HTTP_PROXY_PATH) IN
    IF backendPath = CHAT_STREAM THEN "chatStream"
    ELSE IF backendPath = CHAT THEN "chat"
    ELSE IF backendPath = GENERATE_STREAM THEN "generateStream"
    ELSE IF backendPath = GENERATE THEN "generate"
    ELSE IF backendPath = CHAT_CA_RAG THEN "caRag"
    ELSE IF EXTENDED_BACKEND_TARGETS(backendPath) = "NEXTJS" THEN "extendedNextjs"
    ELSE "transparent"

\* faulty variant: the allow-list check of server.js:189-199 is skipped
RouteNoValidation(method, pathname) ==
  IF ~StartsWithSlash(pathname, HTTP_PROXY_PATH) THEN "nextjs"
  ELSE IF method = HTTP_METHOD_OPTIONS THEN "preflight"
  ELSE LET backendPath == StripPrefix(pathname, HTTP_PROXY_PATH) IN
    IF backendPath = CHAT_STREAM THEN "chatStream"
    ELSE IF backendPath = CHAT THEN "chat"
    ELSE IF backendPath = GENERATE_STREAM THEN "generateStream"
    ELSE IF backendPath = GENERATE THEN "generate"
    ELSE IF backendPath = CHAT_CA_RAG THEN "caRag"
    ELSE IF EXTENDED_BACKEND_TARGETS(backendPath) = "NEXTJS" THEN "extendedNextjs"
    ELSE "transparent"

\* server.js:177-329  what the request handler does with a request
Route(method, pathname) ==
  IF ~StartsWithSlash(pathname, HTTP_PROXY_PATH) THEN "nextjs"
  ELSE IF method = HTTP_METHOD_OPTIONS THEN "preflight"
  ELSE IF ~validateProxyHttpPath(pathname).isValid THEN "forbidden"
  ELSE LET backendPath == StripPrefix(pathname, HTTP_PROXY_PATH) IN
    IF backendPath = CHAT_STREAM THEN "chatStream"
    ELSE IF backendPath = CHAT THEN "chat"
    ELSE IF backendPath = GENERATE_STREAM THEN "generateStream"
    ELSE IF backendPath = GENERATE THEN "generate"
    ELSE IF backendPath = CHAT_CA_RAG THEN "caRag"
    ELSE IF EXTENDED_BACKEND_TARGETS(backendPath) = "NEXTJS" THEN "extendedNextjs"
    ELSE "transparent"

ProcessorRoutes == {"chatStream", "chat", "generateStream", "generate", "caRag"}

\* server.js:215-227  doFetchAndProcess up to its first await: a request with a
\* body awaits readRequestBody, another one issues the backend fetch at once
FetchStart(q) ==
  IF q.method \notin {"GET", "HEAD"}
    THEN [q EXCEPT !.pc = "body"]
    ELSE [q EXCEPT !.pc = "fetch", !.out = @ \cup {"fetch"},
                   !.url = StripPrefix(q.pathname, HTTP_PROXY_PATH),
                   !.fwdSearch = q.search,
                   !.target = UrlOrigin(TargetUrl(
                                StripPrefix(q.pathname, HTTP_PROXY_PATH), q.search))]

\* faulty variant: the has() check of server.js:246 is missing, every /call runs /init
CaRagStartAlwaysInit(q, initialized) ==
  [q EXCEPT !.pc = "init", !.out = @ \cup {"init"}]

\* server.js:241-256  doCaRagWithInit up to its first await
CaRagStart(q, initialized) ==
  IF InitKey(q.conv) \notin initialized
    THEN [q EXCEPT !.pc = "init", !.out = @ \cup {"init"},
                   !.target = UrlOrigin(InitUrl)]
    ELSE FetchStart(q)

\* server.js:169-330  http.createServer request handler, up to its first await
HttpRequest(r, in) ==
  /\ reqs[r].pc = "idle"
  /\ \A q \in DOMAIN reqs : q < r => reqs[q].pc # "idle"
  /\ LET route == Route(in.method, in.pathname)
         q == [IdleReq EXCEPT !.kind = "http", !.method = in.method,
                              !.pathname = in.pathname, !.conv = in.conv,
                              !.search = in.search, !.route = route,
                              !.after = {x \in DOMAIN reqs : reqs[x].pc = "done"}]
     IN reqs' = [reqs EXCEPT ![r] =
          CASE route \in {"nextjs", "extendedNextjs"} ->
                 [q EXCEPT !.pc = "nextProxy", !.out = {"next"},
                           !.url = in.pathname, !.fwdSearch = in.search,
                           !.target = NEXT_DEV_TARGET]
            [] route = "preflight" ->
                 [q EXCEPT !.pc = "done", !.status = 204, !.body = "",
                           !.headers = PreflightHeaders]
            [] route = "forbidden" ->
                 [q EXCEPT !.pc = "done", !.status = 403, !.body = "json:Forbidden"]
            [] route = "caRag" -> CaRagStart(q, initializedCaRagConversations)
            [] route = "transparent" ->
                 [q EXCEPT !.pc = "backendProxy", !.out = {"proxy"},
                           !.url = StripPrefix(in.pathname, HTTP_PROXY_PATH),
                           !.fwdSearch = in.search,
                           !.target = UPSTREAM_HTTP_ORIGIN]
            [] OTHER -> FetchStart(q)]
  /\ UNCHANGED <<initializedCaRagConversations, wsPublicPath, valVars, procVars,
               buildVars, exitVars, uiVars>>

\* faulty variant: a failed /init falls through to the /call (the return of
\* server.js:275 is missing)
AfterInitNoReturn(q, status) ==
  FetchStart([q EXCEPT !.initResult = IF Ok(status) THEN "ok" ELSE "failed",
                       !.initStatus = status])

\* faulty variant: a failed /init is answered 502 like a thrown one
AfterInitAlways502(q, status) ==
  IF ~Ok(status)
    THEN [q EXCEPT !.pc = "done", !.initResult = "failed", !.initStatus = status,
                   !.status = 502, !.body = "json:CA RAG initialization failed"]
    ELSE FetchStart([q EXCEPT !.initResult = "ok", !.initStatus = status])

\* server.js:258-283  the request after /init has answered with `status`
AfterInit(q, status) ==
  IF ~Ok(status)
    THEN [q EXCEPT !.pc = "done", !.initResult = "failed", !.initStatus = status,
                   !.status = status, !.body = "json:CA RAG initialization failed"]
    ELSE FetchStart([q EXCEPT !.initResult = "ok", !.initStatus = status])

\* faulty variant: the key is marked initialized whatever /init answered
InitializedAfterAnyAnswer(initialized, header, status) ==
  initialized \cup {InitKey(header)}

\* faulty variant: the add() of server.js:278 is missing
InitializedAfterNever(initialized, header, status) == initialized

\* server.js:258-279  the set after /init has answered with `status`
InitializedAfter(initialized, header, status) ==
  IF Ok(status) THEN initialized \cup {InitKey(header)} ELSE initialized

\* server.js:252-283  the /init fetch resolves (initRes.text() of a failed one
\* is awaited in the same step: nothing shared is read or written after it)
InitResponds(r, status) ==
  /\ reqs[r].pc = "init"
  /\ initializedCaRagConversations' =
       InitializedAfter(initializedCaRagConversations, reqs[r].conv, status)
  /\ reqs' = [reqs EXCEPT ![r] = AfterInit(reqs[r], status)]
  /\ UNCHANGED <<wsPublicPath, valVars, procVars,
               buildVars, exitVars, uiVars>>

\* server.js:284-295  the /init fetch rejects
InitThrows(r) ==
  /\ reqs[r].pc = "init"
  /\ reqs' = [reqs EXCEPT ![r] =
       [@ EXCEPT !.pc = "done", !.initResult = "threw", !.status = 502,
                 !.body = "json:CA RAG request failed", !.threw = TRUE]]
  /\ UNCHANGED <<initializedCaRagConversations, wsPublicPath, valVars, procVars,
               buildVars, exitVars, uiVars>>

\* server.js:217-227  readRequestBody resolves and the backend fetch is issued
BodyRead(r) ==
  /\ reqs[r].pc = "body"
  /\ reqs' = [reqs EXCEPT ![r] =
       [@ EXCEPT !.pc = "fetch", !.out = @ \cup {"fetch"},
                 !.url = StripPrefix(reqs[r].pathname, HTTP_PROXY_PATH),
                 !.fwdSearch = reqs[r].search,
                 !.target = UrlOrigin(TargetUrl(
                              StripPrefix(reqs[r].pathname, HTTP_PROXY_PATH),
                              reqs[r].search))]]
  /\ UNCHANGED <<initializedCaRagConversations, wsPublicPath, valVars, procVars,
               buildVars, exitVars, uiVars>>

\* server.js:229-230 and response-processors.js:103-107, 168-173, 294-299
\* the backend answers the forwarded request and the route's processor runs
BackendResponds(r, status) ==
  /\ reqs[r].pc = "fetch"
  /\ reqs' = [reqs EXCEPT ![r] =
       IF Ok(status)
         THEN [@ EXCEPT !.pc = "done", !.status = 200, !.body = "processed",
                        !.headers = BackendCorsHeaders]
         ELSE [@ EXCEPT !.pc = "done", !.status = status, !.body = "backend body"]]
  /\ UNCHANGED <<initializedCaRagConversations, wsPublicPath, valVars, procVars,
               buildVars, exitVars, uiVars>>

\* faulty variant: a rejected fetch is issued once more before the 502
BackendThrowsRetries(r) ==
  /\ reqs[r].pc = "fetch"
  /\ reqs' = [reqs EXCEPT ![r] =
       IF ~reqs[r].threw
         THEN [@ EXCEPT !.threw = TRUE]
         ELSE [@ EXCEPT !.pc = "done", !.status = 502, !.body = "json:Bad Gateway"]]
  /\ UNCHANGED <<initializedCaRagConversations, wsPublicPath, valVars, procVars,
               buildVars, exitVars, uiVars>>

\* server.js:231-237  the backend fetch rejects
BackendThrows(r) ==
  /\ reqs[r].pc = "fetch"
  /\ reqs' = [reqs EXCEPT ![r] =
       [@ EXCEPT !.pc = "done", !.status = 502, !.body = "json:Bad Gateway",
                 !.threw = TRUE]]
  /\ UNCHANGED <<initializedCaRagConversations, wsPublicPath, valVars, procVars,
               buildVars, exitVars, uiVars>>

\* server.js:315-322, 120-135  backendProxy.web: the backend's answer is
\* passed through, a proxy error is answered 502
ProxyResponds(r, status) ==
  /\ reqs[r].pc = "backendProxy"
  /\ reqs' = [reqs EXCEPT ![r] =
       IF status = 0
         THEN [@ EXCEPT !.pc = "done", !.status = 502,
                        !.body = "json:Backend unavailable", !.threw = TRUE]
         ELSE [@ EXCEPT !.pc = "done", !.status = status, !.body = "backend body",
                        !.headers = BackendCorsHeaders]]
  /\ UNCHANGED <<initializedCaRagConversations, wsPublicPath, valVars, procVars,
               buildVars, exitVars, uiVars>>

\* server.js:306-313, 325-329, 109-118  nextProxy.web
NextResponds(r, status) ==
  /\ reqs[r].pc = "nextProxy"
  /\ reqs' = [reqs EXCEPT ![r] =
       IF status = 0
         THEN [@ EXCEPT !.pc = "done", !.status = 502,
                        !.body = "json:Next.js dev server unavailable"]
         ELSE [@ EXCEPT !.pc = "done", !.status = status, !.body = "next body"]]
  /\ UNCHANGED <<initializedCaRagConversations, wsPublicPath, valVars, procVars,
               buildVars, exitVars, uiVars>>

\* faulty variant: the validation result of server.js:346-352 is ignored
UpgradeRouteNoValidation(pathname, wsPath) ==
  IF pathname = wsPath THEN "wsBackend" ELSE "wsNextjs"

\* server.js:341-392  where an upgrade goes. url.parse() leaves no "?" in
\* pathname, so the startsWith(WEBSOCKET_PROXY_PATH + '?') disjunct of
\* server.js:343 never holds.
UpgradeRoute(pathname, wsPath) ==
  IF pathname = wsPath
    THEN IF ~validateProxyWebSocketPath(pathname).isValid
           THEN "wsBlocked"
           ELSE "wsBackend"
    ELSE "wsNextjs"

\* faulty variant: the rewrite forgets the query string
WsBackendUrlDropsQuery(search) ==
  [url |-> WEBSOCKET_BACKEND_PATH, search |-> ""]

\* server.js:355  req.url = WEBSOCKET_BACKEND_PATH + (parsedUrl.search || '')
WsBackendUrl(search) ==
  [url |-> WEBSOCKET_BACKEND_PATH, search |-> search]

\* server.js:333-393  server.on('upgrade')
Upgrade(r, pathname, search) ==
  /\ reqs[r].pc = "idle"
  /\ \A q \in DOMAIN reqs : q < r => reqs[q].pc # "idle"
  /\ LET route == UpgradeRoute(pathname, wsPublicPath)
         q == [IdleReq EXCEPT !.kind = "ws", !.method = "GET",
                              !.pathname = pathname, !.search = search,
                              !.route = route,
                              !.after = {x \in DOMAIN reqs : reqs[x].pc = "done"}]
     IN reqs' = [reqs EXCEPT ![r] =
          CASE route = "wsBlocked" ->
                 [q EXCEPT !.pc = "done", !.sockWrite = "HTTP/1.1 403 Forbidden",
                           !.destroyed = TRUE]
            [] route = "wsBackend" ->
                 [q EXCEPT !.pc = "wsRelay", !.out = {"wsBackend"},
                           !.url = WsBackendUrl(search).url,
                           !.fwdSearch = WsBackendUrl(search).search]
            [] OTHER ->
                 [q EXCEPT !.pc = "wsRelay", !.out = {"wsNext"}, !.url = pathname,
                           !.fwdSearch = search]]
  /\ UNCHANGED <<initializedCaRagConversations, wsPublicPath, valVars, procVars,
               buildVars, exitVars, uiVars>>

\* server.js:365-373, 386-391  the relay's error callback
WsRelayError(r) ==
  /\ reqs[r].pc = "wsRelay"
  /\ reqs' = [reqs EXCEPT ![r] =
       IF reqs[r].route = "wsBackend"
         THEN [@ EXCEPT !.pc = "done", !.sockWrite = "HTTP/1.1 502 Bad Gateway",
                        !.destroyed = TRUE]
         ELSE [@ EXCEPT !.pc = "done", !.destroyed = TRUE]]
  /\ UNCHANGED <<initializedCaRagConversations, wsPublicPath, valVars, procVars,
               buildVars, exitVars, uiVars>>

-----------------------------------------------------------------------------
(* What the environment sends *)

\* values of the conversation-id request header
ConvHeaders == {NoHeader, "default", "c1"}

ApiPath(route) == HTTP_PROXY_PATH \o Tail(route)

\* requests of the init-tracker specification: /call for each header, /init
\* called directly through the transparent proxy, and a core route
RagInputs ==
  {[method |-> "POST", pathname |-> ApiPath(CHAT_CA_RAG), conv |-> c,
    search |-> ""] : c \in ConvHeaders}
  \cup {[method |-> "GET", pathname |-> ApiPath(CHAT_CA_RAG), conv |-> "c1",
         search |-> ""],
        [method |-> "POST", pathname |-> ApiPath(CA_RAG_INIT), conv |-> "c1",
         search |-> ""],
        [method |-> "GET", pathname |-> ApiPath(CHAT), conv |-> "c1",
         search |-> ""]}

\* pathnames of the full-routing specification
GwPaths ==
  {ApiPath(p) : p \in ALLOWED_PATHS}
  \cup {<<"", "api", "unknown">>, <<"", "api", "chat", "extra">>,
        <<"", "api", "..", "admin">>, <<"", "api", "chat", "..", "init">>,
        <<"", "api", "", "evil.com", "chat">>, <<"", "api", "http:", "", "evil.com">>,
        <<"", "api", "">>, <<"", "api">>, <<"", "">>, <<"", "index.html">>,
        <<"", "ws">>, <<"", "ws", "..", "chat">>, <<"", "_next", "webpack-hmr">>}

\* query strings of a request URL: none, or one parameter
Searches == {""} \cup QueryTexts

GwInputs ==
  {[method |-> m, pathname |-> p, conv |-> NoHeader, search |-> q] :
     m \in {"GET", "POST", "OPTIONS"}, p \in GwPaths, q \in Searches}

\* values of env WS_PUBLIC_PATH (constants/index.js:21), '/ws' when unset
WsPublicPaths == {<<"", "ws">>, <<"", "ws", "..", "chat">>}

\* statuses the backend answers /init and a forwarded request with
InitStatuses == {200, 404, 500}
BackendStatuses == {200, 500}
\* what a proxied upstream yields: a status, or 0 for a connection error
ProxyOutcomes == {0, 200, 404}

-----------------------------------------------------------------------------
(* Specifications *)

ValIdle == vPath = <<>> /\ vResult = <<>>

ProcIdle ==
  /\ proc = "" /\ backendRes = <<>> /\ pending = <<>> /\ buffer = <<>>
  /\ res = <<>> /\ ppc = "idle" /\ sawDone = FALSE

BuildIdle == bArgs = <<>> /\ built = <<>>

UiIdle ==
  sInput = <<>> /\ sResult = <<>> /\ modal = <<>> /\ guide = <<>> /\ streams = <<>>

ExitIdle ==
  /\ isShuttingDown = FALSE /\ sigListeners = {} /\ srv = <<>> /\ exited = "no"

\* the init tracker under concurrent requests
InitRag ==
  /\ initializedCaRagConversations = {}
  /\ reqs = [r \in 1..MaxReqs |-> IdleReq]
  /\ wsPublicPath = <<"", "ws">>
  /\ ValIdle
  /\ ProcIdle
  /\ BuildIdle
  /\ UiIdle
  /\ ExitIdle

NextRag ==
  \/ \E r \in DOMAIN reqs, in \in RagInputs : HttpRequest(r, in)
  \/ \E r \in DOMAIN reqs, st \in InitStatuses : InitResponds(r, st)
  \/ \E r \in DOMAIN reqs : InitThrows(r)
  \/ \E r \in DOMAIN reqs : BodyRead(r)
  \/ \E r \in DOMAIN reqs, st \in BackendStatuses : BackendResponds(r, st)
  \/ \E r \in DOMAIN reqs : BackendThrows(r)
  \/ \E r \in DOMAIN reqs, st \in ProxyOutcomes : ProxyResponds(r, st)

SpecRag == InitRag /\ [][NextRag]_vars

\* the whole dispatcher: every route, HTTP and WebSocket
Init ==
  /\ initializedCaRagConversations = {}
  /\ reqs = [r \in 1..MaxGwReqs |-> IdleReq]
  /\ wsPublicPath \in WsPublicPaths
  /\ ValIdle
  /\ ProcIdle
  /\ BuildIdle
  /\ UiIdle
  /\ ExitIdle

Next ==
  \/ \E r \in DOMAIN reqs, in \in GwInputs : HttpRequest(r, in)
  \/ \E r \in DOMAIN reqs, st \in InitStatuses : InitResponds(r, st)
  \/ \E r \in DOMAIN reqs : InitThrows(r)
  \/ \E r \in DOMAIN reqs : BodyRead(r)
  \/ \E r \in DOMAIN reqs, st \in BackendStatuses : BackendResponds(r, st)
  \/ \E r \in DOMAIN reqs : BackendThrows(r)
  \/ \E r \in DOMAIN reqs, st \in ProxyOutcomes : ProxyResponds(r, st)
  \/ \E r \in DOMAIN reqs, st \in ProxyOutcomes : NextResponds(r, st)
  \/ \E r \in DOMAIN reqs, p \in GwPaths, q \in Searches : Upgrade(r, p, q)
  \/ \E r \in DOMAIN reqs : WsRelayError(r)

Spec == Init /\ [][Next]_vars

\* the path validators as pure functions of every short path
SegAlphabet == {"", "api", "ws", "chat", "stream", "..", "http:", "evil.com"}

PathUniverse ==
  UNION {[1..n -> SegAlphabet] : n \in 1..MaxSegs}

InitValidate ==
  /\ initializedCaRagConversations = {}
  /\ reqs = <<>>
  /\ wsPublicPath = <<"", "ws">>
  /\ vPath \in PathUniverse
  /\ vResult = <<>>
  /\ ProcIdle
  /\ BuildIdle
  /\ UiIdle
  /\ ExitIdle

Validate ==
  /\ vResult = <<>>
  /\ vResult' = [http |-> validateProxyHttpPath(vPath),
                 ws |-> validateProxyWebSocketPath(vPath)]
  /\ UNCHANGED <<gwVars, vPath, procVars, buildVars, exitVars, uiVars>>

NextValidate == Validate

SpecValidate == InitValidate /\ [][NextValidate]_vars

-----------------------------------------------------------------------------
(* Properties of the init tracker (SpecRag) *)

IsCall(q) == q.kind = "http" /\ q.route = "caRag"

\* the step issues the /init call of request r
IssuesInit(r) == "init" \in reqs'[r].out /\ "init" \notin reqs[r].out

\* the step forwards the /call of request r to the backend
IssuesForward(r) ==
  /\ IsCall(reqs'[r])
  /\ "fetch" \in reqs'[r].out
  /\ "fetch" \notin reqs[r].out

\* C1, as claimed: over all interleavings the /init call is issued at most
\* once per conversation key.
C1_InitAtMostOncePerKey ==
  \A a, b \in DOMAIN reqs :
    ( /\ "init" \in reqs[a].out
      /\ "init" \in reqs[b].out
      /\ InitKey(reqs[a].conv) = InitKey(reqs[b].conv) ) => a = b

\* C1, amended: an /init call is issued only by a /call request that finds its
\* key absent from the set at the has() check; a /call that arrives when its
\* key is in the set issues no /init and goes straight to forwarding (it
\* awaits its body or issues the backend fetch).
C1_InitOnlyWhileKeyAbsent ==
  [][\A r \in DOMAIN reqs :
       /\ IssuesInit(r) =>
            /\ reqs[r].pc = "idle"
            /\ IsCall(reqs'[r])
            /\ InitKey(reqs'[r].conv) \notin initializedCaRagConversations
       /\ ( /\ reqs[r].pc = "idle"
            /\ IsCall(reqs'[r])
            /\ InitKey(reqs'[r].conv) \in initializedCaRagConversations )
          => /\ "init" \notin reqs'[r].out
             /\ reqs'[r].pc \in {"body", "fetch"}]_vars

\* C1 witness: one request initialized the key, a later one with the same key
\* skipped /init and was forwarded.
C1_Witness ==
  \E a, b \in DOMAIN reqs :
    /\ a # b
    /\ IsCall(reqs[a]) /\ IsCall(reqs[b])
    /\ InitKey(reqs[a].conv) = InitKey(reqs[b].conv)
    /\ reqs[a].initResult = "ok"
    /\ "init" \notin reqs[b].out
    /\ "fetch" \in reqs[b].out

\* C2, as claimed: whenever /init failed (non-success status or a thrown
\* fetch) the /call is not forwarded and the client receives the status code
\* the /init call answered.
C2_ClientGetsInitStatus ==
  \A r \in DOMAIN reqs :
    reqs[r].initResult \in {"failed", "threw"} =>
      /\ "fetch" \notin reqs[r].out
      /\ reqs[r].status = reqs[r].initStatus

\* C2, amended: when /init answers a non-success status the /call is never
\* forwarded, the key is not added and the client receives that status; when
\* the /init fetch throws the /call is never forwarded, the key is not added
\* and the client receives 502; a /call that arrives while its key is still
\* absent from the set issues /init again.
C2_InitFailure ==
  /\ [](\A r \in DOMAIN reqs :
         /\ reqs[r].initResult = "failed" =>
              /\ reqs[r].pc = "done"
              /\ "fetch" \notin reqs[r].out
              /\ ~Ok(reqs[r].initStatus)
              /\ reqs[r].status = reqs[r].initStatus
         /\ reqs[r].initResult = "threw" =>
              /\ reqs[r].pc = "done"
              /\ "fetch" \notin reqs[r].out
              /\ reqs[r].status = 502)
  /\ [][\A r \in DOMAIN reqs :
         /\ ( /\ reqs[r].initResult = "none"
              /\ reqs'[r].initResult \in {"failed", "threw"} )
            => initializedCaRagConversations' = initializedCaRagConversations
         /\ ( /\ reqs[r].pc = "idle"
              /\ IsCall(reqs'[r])
              /\ InitKey(reqs'[r].conv) \notin initializedCaRagConversations )
            => IssuesInit(r)]_vars

\* C2 witness: a request whose /init failed has finished without a forward,
\* and a request with the same key that arrived after it issued /init again.
C2_Witness ==
  \E a, b \in DOMAIN reqs :
    /\ IsCall(reqs[a]) /\ IsCall(reqs[b])
    /\ InitKey(reqs[a].conv) = InitKey(reqs[b].conv)
    /\ reqs[a].initResult = "failed"
    /\ reqs[a].status = 404
    /\ a \in reqs[b].after
    /\ "init" \in reqs[b].out

\* C3: a /call is forwarded to the backend only when its key is in the set,
\* and some /init call for that key has succeeded by then.
C3_ForwardOnlyInitialized ==
  [][\A r \in DOMAIN reqs :
       IssuesForward(r) =>
         /\ InitKey(reqs'[r].conv) \in initializedCaRagConversations'
         /\ \E q \in DOMAIN reqs :
              /\ reqs'[q].initResult = "ok"
              /\ InitKey(reqs'[q].conv) = InitKey(reqs'[r].conv)]_vars

\* C3 witness: two racing requests with one key both issued /init, and both
\* were forwarded.
C3_Witness ==
  \E a, b \in DOMAIN reqs :
    /\ a # b
    /\ InitKey(reqs[a].conv) = InitKey(reqs[b].conv)
    /\ {"init", "fetch"} \subseteq reqs[a].out
    /\ {"init", "fetch"} \subseteq reqs[b].out

\* C4: the set only grows, and a key enters it only in the step in which an
\* /init call issued by the gateway for that key answers a success status.
C4_AppendOnly ==
  [][/\ initializedCaRagConversations \subseteq initializedCaRagConversations'
     /\ \A k \in initializedCaRagConversations' \ initializedCaRagConversations :
          \E r \in DOMAIN reqs :
            /\ reqs[r].pc = "init"
            /\ InitKey(reqs[r].conv) = k
            /\ reqs'[r].initResult = "ok"]_vars

\* C4 witness: a client called /init directly through the transparent proxy
\* and got 200, its key is not in the set; another key was added by the
\* gateway's own /init.
C4_Witness ==
  \E a, b \in DOMAIN reqs :
    /\ reqs[a].route = "transparent"
    /\ reqs[a].url = CA_RAG_INIT
    /\ reqs[a].status = 200
    /\ InitKey(reqs[a].conv) \notin initializedCaRagConversations
    /\ reqs[b].initResult = "ok"
    /\ InitKey(reqs[b].conv) \in initializedCaRagConversations

\* every request that has arrived found every earlier one finished
Sequential ==
  \A a, b \in DOMAIN reqs :
    (a < b /\ reqs[b].pc # "idle") => a \in reqs[b].after

\* C34: a /call that arrives after a /call with the same key has finished
\* with a successful /init issues no /init and goes straight to forwarding;
\* and when the requests are handled one after another, the successful /init
\* calls of one key are at most one.
C34_SequentialInitOnce ==
  /\ \A a, b \in DOMAIN reqs :
       ( /\ IsCall(reqs[a]) /\ IsCall(reqs[b])
         /\ a \in reqs[b].after
         /\ InitKey(reqs[a].conv) = InitKey(reqs[b].conv)
         /\ reqs[a].initResult = "ok" )
       => /\ "init" \notin reqs[b].out
          /\ reqs[b].initResult = "none"
          /\ reqs[b].pc \in {"body", "fetch", "done"}
          /\ reqs[b].pc = "done" => "fetch" \in reqs[b].out
  /\ Sequential =>
       \A h \in ConvHeaders :
         Cardinality({r \in DOMAIN reqs :
                        /\ IsCall(reqs[r])
                        /\ InitKey(reqs[r].conv) = InitKey(h)
                        /\ reqs[r].initResult = "ok"}) <= 1

\* C34 witness: the first /call of conversation c1 ran /init, was forwarded
\* and answered; the second one arrived after that, issued no /init, was
\* forwarded and answered 200.
C34_Witness ==
  /\ Sequential
  /\ IsCall(reqs[1]) /\ IsCall(reqs[2])
  /\ reqs[1].conv = "c1" /\ reqs[2].conv = "c1"
  /\ reqs[1].initResult = "ok"
  /\ reqs[1].pc = "done"
  /\ reqs[2].out = {"fetch"}
  /\ reqs[2].pc = "done"
  /\ reqs[2].status = 200

\* the conversation a request belongs to: its conversation-id header, or
\* 'default' when the header is absent or empty
ConversationOf(q) == IF q.conv \in {NoHeader, ""} THEN "default" ELSE q.conv

\* the conversations whose key is in the set
InitializedConversations(initialized) == {k[2] : k \in initialized}

\* C35: two requests have the same key exactly when they belong to the same
\* conversation, header-less requests belonging to 'default'. The handling
\* of a request removes no key and adds at most the key of its own
\* conversation, and an arriving /call skips /init exactly when its own
\* conversation's key is in the set, whatever other keys are.
C35_KeyPerConversation ==
  /\ [](\A a, b \in DOMAIN reqs :
          /\ (InitKey(reqs[a].conv) = InitKey(reqs[b].conv))
               <=> (ConversationOf(reqs[a]) = ConversationOf(reqs[b]))
          /\ reqs[a].conv = NoHeader =>
               InitKey(reqs[a].conv) = <<RAG_UUID, "default">>)
  /\ [][\A r \in DOMAIN reqs :
          reqs'[r] # reqs[r] =>
            /\ initializedCaRagConversations
                 \subseteq initializedCaRagConversations'
            /\ InitializedConversations(initializedCaRagConversations'
                                          \ initializedCaRagConversations)
                 \subseteq {ConversationOf(reqs[r])}
            /\ (reqs[r].pc = "idle" /\ IsCall(reqs'[r])) =>
                 (IssuesInit(r) <=>
                    ConversationOf(reqs'[r]) \notin
                      InitializedConversations(initializedCaRagConversations))]_vars

\* C35 witness: a header-less /call initialized 'default' and was answered;
\* the /call of conversation c1 that arrived afterwards still ran its own
\* /init, and both keys are in the set.
C35_Witness ==
  /\ IsCall(reqs[1]) /\ IsCall(reqs[2])
  /\ reqs[1].conv = NoHeader /\ reqs[2].conv = "c1"
  /\ reqs[1].initResult = "ok"
  /\ 1 \in reqs[2].after
  /\ reqs[2].initResult = "ok"
  /\ InitializedConversations(initializedCaRagConversations) = {"default", "c1"}

-----------------------------------------------------------------------------
(* Properties of the dispatcher (Spec) *)

UnderApiPrefix(q) == q.kind = "http" /\ StartsWithSlash(q.pathname, HTTP_PROXY_PATH)

\* C5: a non-preflight request under the API prefix whose path fails
\* validation is answered 403 with a JSON error body and causes no outbound
\* call; whatever is sent upstream for such a request was validated first.
C5_ValidationBeforeOutbound ==
  \A r \in DOMAIN reqs :
    ( /\ UnderApiPrefix(reqs[r])
      /\ reqs[r].method # HTTP_METHOD_OPTIONS )
    => IF validateProxyHttpPath(reqs[r].pathname).isValid
         THEN reqs[r].status # 403
         ELSE /\ reqs[r].pc = "done"
              /\ reqs[r].status = 403
              /\ reqs[r].body = "json:Forbidden"
              /\ reqs[r].out = {}

\* C5 witness: a request with a traversal segment was answered 403.
C5_Witness ==
  \E r \in DOMAIN reqs :
    /\ UnderApiPrefix(reqs[r])
    /\ reqs[r].method = "POST"
    /\ HasTraversal(reqs[r].pathname)
    /\ reqs[r].status = 403

-----------------------------------------------------------------------------
(* Properties of the validators (SpecValidate) *)

\* C6: a path with a ".." segment, an absolute URL or an embedded scheme is
\* invalid for both validators, and the HTTP validator accepts a path only if
\* it lies under the proxy prefix and its backend-relative part is one of
\* ALLOWED_PATHS.
C6_ValidatorRejects ==
  vResult # <<>> =>
    /\ ( \/ \E i \in 1..Len(vPath) : vPath[i] = ".."
         \/ vPath[1] \in {"http:", "https:"}
         \/ \E i \in 1..Len(vPath) : vPath[i] \in {"http:", "https:"} )
       => (~vResult.http.isValid /\ ~vResult.ws.isValid)
    /\ vResult.http.isValid =>
         \E a \in ALLOWED_PATHS : vPath = HTTP_PROXY_PATH \o Tail(a)

\* C6 witness: an allow-listed route reached through a ".." segment was
\* validated, and was rejected by both validators.
C6_Witness ==
  /\ vPath = <<"", "api", "..", "chat">>
  /\ vResult # <<>>
  /\ ~vResult.http.isValid
  /\ ~vResult.ws.isValid

-----------------------------------------------------------------------------
(* response-processors.js                                                  *)
(*                                                                         *)
(* Text is a sequence of tokens, each token a fixed piece of text: the     *)
(* newline, the space, a line prefix without its space ("data:"), a half   *)
(* of the "[DONE]" sentinel, a whole JSON text. A chunk boundary can fall  *)
(* between any two tokens, so inside a line, inside "data: " and inside    *)
(* "[DONE]". JSON texts are written without their double quotes.           *)

NL == "\n"
Whitespace == {" ", NL}
DoneBracketed == <<"[DO", "NE]">>
DonePlain == <<"DONE">>

\* String.prototype.trim
RECURSIVE TrimLeft(_)
TrimLeft(s) ==
  IF s # <<>> /\ Head(s) \in Whitespace THEN TrimLeft(Tail(s)) ELSE s

RECURSIVE TrimRight(_)
TrimRight(s) ==
  IF s # <<>> /\ s[Len(s)] \in Whitespace
    THEN TrimRight(SubSeq(s, 1, Len(s) - 1))
    ELSE s

Trim(s) == TrimRight(TrimLeft(s))

\* s.split('\n'): never empty, the last element is the text after the last "\n"
RECURSIVE SplitNL(_)
SplitNL(s) ==
  IF \E i \in 1..Len(s) : s[i] = NL
    THEN LET i == CHOOSE k \in 1..Len(s) :
                    s[k] = NL /\ \A j \in 1..(k - 1) : s[j] # NL
         IN <<SubSeq(s, 1, i - 1)>> \o SplitNL(SubSeq(s, i + 1, Len(s)))
    ELSE <<s>>

\* s.startsWith(prefix + ' ')
StartsWithPrefix(s, prefix) == Len(s) >= 2 /\ s[1] = prefix /\ s[2] = " "

\* tokens whose text begins with "{"
BraceTokens ==
  {"{choices:[{delta:{content:a}}]}", "{choices:[{message:{content:hello}}]}",
   "{choices:[{delta:{content:}}]}", "{value:v}", "{value:1}", "{error:boom}",
   "{id:s1,status:in_progress,name:Step1}", "{observability_trace_id:t1}",
   "{state:{chat:{answer:42}}}", "{answer:yes}", "{oops",
   "{choices:[{message:{content:hello}}],message:m}", "{message:m,answer:yes}",
   "{answer:yes,value:v}", "{value:}", "{name:"}

\* s.startsWith('{')
StartsWithBrace(s) == s # <<>> /\ s[1] \in BraceTokens

(* JavaScript values: a type tag and the value's text *)
JStr(v) == [t |-> "string", v |-> v]
JNum(v) == [t |-> "number", v |-> v]
Undefined == [t |-> "undefined", v |-> ""]

Truthy(x) ==
  CASE x.t = "string" -> x.v # ""
    [] x.t = "number" -> x.v # "0"
    [] OTHER -> FALSE

\* a || b
Or(a, b) == IF Truthy(a) THEN a ELSE b

NoFields == [k \in {} |-> Undefined]

\* JSON.parse of one token: the parsed object as a map from property path to
\* value, or a SyntaxError
ParseToken(tok) ==
  CASE tok = "{choices:[{delta:{content:a}}]}" ->
         [ok |-> TRUE, val |-> ("choices.0.delta.content" :> JStr("a"))]
    [] tok = "{choices:[{message:{content:hello}}]}" ->
         [ok |-> TRUE, val |-> ("choices.0.message.content" :> JStr("hello"))]
    [] tok = "{choices:[{delta:{content:}}]}" ->
         [ok |-> TRUE, val |-> ("choices.0.delta.content" :> JStr(""))]
    [] tok = "{value:v}" -> [ok |-> TRUE, val |-> ("value" :> JStr("v"))]
    [] tok = "{value:1}" -> [ok |-> TRUE, val |-> ("value" :> JNum("1"))]
    [] tok = "{error:boom}" -> [ok |-> TRUE, val |-> ("error" :> JStr("boom"))]
    [] tok = "{id:s1,status:in_progress,name:Step1}" ->
         [ok |-> TRUE, val |-> ("id" :> JStr("s1") @@ "status" :> JStr("in_progress")
                                @@ "name" :> JStr("Step1"))]
    [] tok = "{observability_trace_id:t1}" ->
         [ok |-> TRUE, val |-> ("observability_trace_id" :> JStr("t1"))]
    [] tok = "{state:{chat:{answer:42}}}" ->
         [ok |-> TRUE, val |-> ("state.chat.answer" :> JStr("42"))]
    [] tok = "{answer:yes}" -> [ok |-> TRUE, val |-> ("answer" :> JStr("yes"))]
    [] tok = "{choices:[{message:{content:hello}}],message:m}" ->
         [ok |-> TRUE, val |-> ("choices.0.message.content" :> JStr("hello")
                                @@ "message" :> JStr("m"))]
    [] tok = "{message:m,answer:yes}" ->
         [ok |-> TRUE, val |-> ("message" :> JStr("m") @@ "answer" :> JStr("yes"))]
    [] tok = "{answer:yes,value:v}" ->
         [ok |-> TRUE, val |-> ("answer" :> JStr("yes") @@ "value" :> JStr("v"))]
    [] tok = "{value:}" -> [ok |-> TRUE, val |-> ("value" :> JStr(""))]
    [] OTHER -> [ok |-> FALSE, val |-> NoFields]

\* the JSON text {name:intermediate_data: x}, an object whose 'name' string
\* holds the text of a line prefix: four tokens
NameHoldsPrefix == <<"{name:", "intermediate_data:", " ", "x}">>

\* JSON.parse of a text: white space around one JSON text is allowed, anything
\* else (no text, two texts, a prefix left in front) is a SyntaxError
JsonParse(s) ==
  IF Len(Trim(s)) = 1
    THEN ParseToken(Trim(s)[1])
  ELSE IF Trim(s) = NameHoldsPrefix
    THEN [ok |-> TRUE, val |-> ("name" :> JStr("intermediate_data: x"))]
    ELSE [ok |-> FALSE, val |-> NoFields]

\* parsed?.a?.b
Get(parsed, path) ==
  IF path \in DOMAIN parsed THEN parsed[path] ELSE Undefined

(* The client response *)

NoMsg ==
  [id |-> "", status |-> "", error |-> "", type |-> "", parent_id |-> "",
   intermediate_parent_id |-> "", name |-> "", payload |-> "", time_stamp |-> ""]

FreshRes ==
  [statusCode |-> 0, headersSent |-> FALSE, contentType |-> "",
   writes |-> <<>>, endCalls |-> 0, ended |-> FALSE, lateWrites |-> 0,
   headers |-> {}, clientGone |-> FALSE, readsAfterGone |-> 0, splits |-> {}]

\* a written piece: plain text, or a sentinel-tagged segment
TextItem(text) == [kind |-> "text", text |-> text, msg |-> NoMsg]

WriteHead(r, status, contentType) ==
  [r EXCEPT !.statusCode = status, !.headersSent = TRUE,
            !.contentType = contentType]

\* response-processors.js:112-113, 182-183, 282-283, 306-307, 314-315 and
\* server.js:132-133  the headers that allow the configured origin
CorsHeaders == {"Access-Control-Allow-Origin", "Access-Control-Allow-Credentials"}

\* res.writeHead(status, headers) with the two CORS headers among them
WriteHeadCors(r, status, contentType) ==
  [WriteHead(r, status, contentType) EXCEPT !.headers = @ \cup CorsHeaders]

\* res.write(item); a write after end() reaches nobody
ResWrite(r, item) ==
  IF r.ended
    THEN [r EXCEPT !.lateWrites = @ + 1]
    ELSE [r EXCEPT !.writes = Append(@, item)]

\* res.end()
ResEnd(r) == [r EXCEPT !.endCalls = @ + 1, !.ended = TRUE]

\* res.end(text)
ResEndWith(r, text) ==
  ResEnd(IF text = <<>> THEN r ELSE ResWrite(r, TextItem(text)))

\* the text the client has received
RECURSIVE ClientText(_)
ClientText(writes) ==
  IF writes = <<>> THEN <<>>
  ELSE (IF Head(writes).kind = "text" THEN Head(writes).text
        ELSE <<Head(writes).kind>>) \o ClientText(Tail(writes))

\* line.split(prefix + ' ')[1], for a line that starts with the prefix: the
\* text up to the next occurrence of the prefix
AfterPrefix(line, prefix) ==
  LET rest == SubSeq(line, 3, Len(line))
      cuts == {i \in 1..(Len(rest) - 1) : rest[i] = prefix /\ rest[i + 1] = " "}
  IN IF cuts = {} THEN rest
     ELSE SubSeq(rest, 1, (CHOOSE i \in cuts : \A j \in cuts : i <= j) - 1)

\* response-processors.js:21-46
processIntermediateData(line, r) ==
  LET payload == JsonParse(AfterPrefix(line, "intermediate_data:"))
      f(path, default) == Or(Get(payload.val, path), JStr(default)).v
  IN IF ~payload.ok THEN r
     ELSE ResWrite(r,
            [kind |-> "intermediatestep", text |-> <<>>,
             msg |-> [id |-> f("id", ""),
                      status |-> f("status", "in_progress"),
                      error |-> f("error", ""),
                      type |-> "system_intermediate",
                      parent_id |-> f("parent_id", "default"),
                      intermediate_parent_id |-> f("intermediate_parent_id", "default"),
                      name |-> f("name", "Step"),
                      payload |-> f("payload", "No details"),
                      time_stamp |-> f("time_stamp", "default")]])

\* response-processors.js:48-60
processObservabilityTrace(line, r) ==
  LET payload == JsonParse(AfterPrefix(line, "observability_trace:"))
      id == Get(payload.val, "observability_trace_id")
  IN IF payload.ok /\ Truthy(id)
       THEN ResWrite(r, [kind |-> "observabilitytraceid", text |-> <<id.v>>,
                         msg |-> NoMsg])
       ELSE r

\* response-processors.js:68-82
processCommonLineTypes(line, r) ==
  IF StartsWithPrefix(line, "intermediate_data:") THEN processIntermediateData(line, r)
  ELSE IF StartsWithPrefix(line, "observability_trace:") THEN processObservabilityTrace(line, r)
  ELSE IF StartsWithBrace(Trim(line)) THEN ResWrite(r, TextItem(Trim(line)))
  ELSE r

\* faulty variant: whatever text remains is written
processRemainingBufferWritesAny(buf, r) ==
  IF Trim(buf) # <<>> THEN ResWrite(r, TextItem(Trim(buf))) ELSE r

\* response-processors.js:90-95
processRemainingBuffer(buf, r) ==
  IF StartsWithBrace(Trim(buf)) THEN ResWrite(r, TextItem(Trim(buf))) ELSE r

\* faulty variant: a data line that does not parse aborts the line loop, as
\* an exception escaping to the outer catch would
ChatStreamLineParseErrorAborts(line, r) ==
  IF StartsWithPrefix(line, "data:")
    THEN LET data == Trim(SubSeq(line, 3, Len(line)))
             parsed == JsonParse(data)
             content == Or(Get(parsed.val, "choices.0.message.content"),
                           Get(parsed.val, "choices.0.delta.content"))
         IN IF data = DoneBracketed \/ data = DonePlain
              THEN [res |-> ResEnd(r), done |-> TRUE]
            ELSE IF ~parsed.ok THEN [res |-> r, done |-> TRUE]
            ELSE IF Truthy(content)
              THEN [res |-> ResWrite(r, TextItem(<<content.v>>)), done |-> FALSE]
            ELSE [res |-> r, done |-> FALSE]
    ELSE [res |-> processCommonLineTypes(line, r), done |-> FALSE]

\* response-processors.js:134-153  one line of the chat stream; done: the
\* DONE branch ended the response and returned
ChatStreamLine(line, r) ==
  IF StartsWithPrefix(line, "data:")
    THEN LET data == Trim(SubSeq(line, 3, Len(line)))
             parsed == JsonParse(data)
             content == Or(Get(parsed.val, "choices.0.message.content"),
                           Get(parsed.val, "choices.0.delta.content"))
         IN IF data = DoneBracketed \/ data = DonePlain
              THEN [res |-> ResEnd(r), done |-> TRUE]
            ELSE IF parsed.ok /\ Truthy(content)
              THEN [res |-> ResWrite(r, TextItem(<<content.v>>)), done |-> FALSE]
            ELSE [res |-> r, done |-> FALSE]
    ELSE [res |-> processCommonLineTypes(line, r), done |-> FALSE]

\* faulty variant: the extracted value is written, not the JSON text
GenerateStreamLineWritesValue(line, r) ==
  IF StartsWithPrefix(line, "data:")
    THEN LET data == Trim(SubSeq(line, 3, Len(line)))
             parsed == JsonParse(data)
             value == Get(parsed.val, "value")
         IN IF data = DoneBracketed \/ data = DonePlain
              THEN [res |-> ResEnd(r), done |-> TRUE]
            ELSE IF parsed.ok /\ Truthy(value) /\ value.t = "string"
              THEN [res |-> ResWrite(r, TextItem(<<value.v>>)), done |-> FALSE]
            ELSE [res |-> r, done |-> FALSE]
    ELSE [res |-> processCommonLineTypes(line, r), done |-> FALSE]

\* response-processors.js:237-253  one line of the generate stream
GenerateStreamLine(line, r) ==
  IF StartsWithPrefix(line, "data:")
    THEN LET data == Trim(SubSeq(line, 3, Len(line)))
             parsed == JsonParse(data)
             value == Get(parsed.val, "value")
         IN IF data = DoneBracketed \/ data = DonePlain
              THEN [res |-> ResEnd(r), done |-> TRUE]
            ELSE IF parsed.ok /\ Truthy(value) /\ value.t = "string"
              THEN [res |-> ResWrite(r, TextItem(data)), done |-> FALSE]
            ELSE [res |-> r, done |-> FALSE]
    ELSE [res |-> processCommonLineTypes(line, r), done |-> FALSE]

StreamLine(p, line, r) ==
  IF p = "chatStream" THEN ChatStreamLine(line, r) ELSE GenerateStreamLine(line, r)

\* faulty variant: the DONE branch leaves the line loop's iteration but not the
\* function, the lines after it are processed
RECURSIVE ProcessLinesPastDone(_, _, _)
ProcessLinesPastDone(p, lines, r) ==
  IF lines = <<>> THEN [res |-> r, done |-> FALSE]
  ELSE LET o == StreamLine(p, Head(lines), r)
           rest == ProcessLinesPastDone(p, Tail(lines), o.res)
       IN [res |-> rest.res, done |-> o.done \/ rest.done]

\* response-processors.js:133-154, 236-254  for (const line of lines)
RECURSIVE ProcessLines(_, _, _)
ProcessLines(p, lines, r) ==
  IF lines = <<>> THEN [res |-> r, done |-> FALSE]
  ELSE LET o == StreamLine(p, Head(lines), r)
       IN IF o.done THEN o ELSE ProcessLines(p, Tail(lines), o.res)

\* history: one more reader.read() has resolved; counted once the client is gone
CountRead(r) ==
  IF r.clientGone THEN [r EXCEPT !.readsAfterGone = @ + 1] ELSE r

\* faulty variant: the processors have no finally block
FinallyMissing(r) == r

\* response-processors.js:160-162, 260-262  finally { res.end() }
Finally(r) == ResEnd(r)

StreamProcessors == {"chatStream", "generateStream"}
Processors == {"chatStream", "chat", "generateStream", "generate", "caRag"}

\* faulty variant: a backend error is replaced by a gateway error
MirrorBackendErrorAs502(r, bres) ==
  ResEndWith(WriteHead(r, 502, "application/json"), <<"{error:Bad Gateway}">>)

\* response-processors.js:103-107, 169-173, 206-210, 269-273, 295-299
\* if (!backendRes.ok) { writeHead(status); end(await backendRes.text()) }
MirrorBackendError(r, bres) ==
  ResEndWith(WriteHead(r, bres.status, "application/json"), bres.body)

ProcMirrorsError ==
  /\ ppc = "start"
  /\ ~Ok(backendRes.status)
  /\ res' = MirrorBackendError(res, backendRes)
  /\ ppc' = "returned"
  /\ UNCHANGED <<gwVars, valVars, proc, backendRes, pending, buffer, sawDone,
               buildVars, exitVars, uiVars>>

\* response-processors.js:109-118, 212-221  the stream's headers are sent
StreamBegins ==
  /\ ppc = "start"
  /\ Ok(backendRes.status)
  /\ proc \in StreamProcessors
  /\ res' = WriteHeadCors(res, 200, "text/event-stream; charset=utf-8")
  /\ ppc' = "reading"
  /\ UNCHANGED <<gwVars, valVars, proc, backendRes, pending, buffer, sawDone,
               buildVars, exitVars, uiVars>>

\* history: where in a line the chunk that was just read stopped, when it
\* stopped inside one: after a line prefix and before its space, inside the
\* "[DONE]" sentinel, or elsewhere in the line
NoteSplit(r, rest) ==
  IF rest = <<>> THEN r
  ELSE [r EXCEPT !.splits = @ \cup
          {IF rest \in {<<"data:">>, <<"intermediate_data:">>,
                        <<"observability_trace:">>} THEN "prefix"
           ELSE IF rest[Len(rest)] = "[DO" THEN "sentinel"
           ELSE "line"}]

\* faulty variant: each chunk is split into lines on its own, the text left
\* over from the chunk before is not put in front of it
ReadChunkForgetsBuffer(n) ==
  /\ ppc = "reading"
  /\ n \in 1..Len(pending)
  /\ LET text == SubSeq(pending, 1, n)
         lines == SplitNL(text)
         o == ProcessLines(proc, SubSeq(lines, 1, Len(lines) - 1), CountRead(res))
     IN /\ buffer' = lines[Len(lines)]
        /\ pending' = SubSeq(pending, n + 1, Len(pending))
        /\ IF o.done
             THEN res' = Finally(o.res) /\ ppc' = "returned" /\ sawDone' = TRUE
             ELSE /\ res' = NoteSplit(o.res, lines[Len(lines)])
                  /\ ppc' = "reading" /\ sawDone' = sawDone
  /\ UNCHANGED <<gwVars, valVars, proc, backendRes, buildVars, exitVars, uiVars>>

\* response-processors.js:121-155, 224-255  reader.read() yields the next n
\* tokens of the body; one pass of the while loop
ReadChunk(n) ==
  /\ ppc = "reading"
  /\ n \in 1..Len(pending)
  /\ LET text == buffer \o SubSeq(pending, 1, n)
         lines == SplitNL(text)
         o == ProcessLines(proc, SubSeq(lines, 1, Len(lines) - 1), CountRead(res))
     IN /\ buffer' = lines[Len(lines)]
        /\ pending' = SubSeq(pending, n + 1, Len(pending))
        /\ IF o.done
             THEN res' = Finally(o.res) /\ ppc' = "returned" /\ sawDone' = TRUE
             ELSE /\ res' = NoteSplit(o.res, lines[Len(lines)])
                  /\ ppc' = "reading" /\ sawDone' = sawDone
  /\ UNCHANGED <<gwVars, valVars, proc, backendRes, buildVars, exitVars, uiVars>>

\* the client closes its connection while the stream is being relayed; the
\* processors register no 'close' listener and never look at the response's
\* state, so nothing else changes
ClientDisconnects ==
  /\ ppc = "reading"
  /\ ~res.clientGone
  /\ res' = [res EXCEPT !.clientGone = TRUE]
  /\ UNCHANGED <<gwVars, valVars, proc, backendRes, pending, buffer, sawDone,
               ppc, buildVars, exitVars, uiVars>>

\* response-processors.js:123-125, 157-162  reader.read() yields done
ReadDone ==
  /\ ppc = "reading"
  /\ pending = <<>>
  /\ res' = Finally(processRemainingBuffer(buffer, CountRead(res)))
  /\ ppc' = "returned"
  /\ UNCHANGED <<gwVars, valVars, proc, backendRes, pending, buffer, sawDone,
               buildVars, exitVars, uiVars>>

\* response-processors.js:158-162  reader.read() rejects
ReadError ==
  /\ ppc = "reading"
  /\ res' = Finally(res)
  /\ ppc' = "returned"
  /\ UNCHANGED <<gwVars, valVars, proc, backendRes, pending, buffer, sawDone,
               buildVars, exitVars, uiVars>>

\* typeof x === 'string' ? x : JSON.stringify(x), as the body of res.end()
EndText(x) == IF x.t = "undefined" THEN <<>> ELSE <<x.v>>

\* faulty variant: a body that does not parse is answered as a server error
processChatParseFailureIs500(bres, r) ==
  LET parsed == JsonParse(bres.body)
      content == Or(Get(parsed.val, "choices.0.message.content"),
                 Or(Get(parsed.val, "message"),
                 Or(Get(parsed.val, "answer"), Get(parsed.val, "value"))))
  IN IF parsed.ok
       THEN ResEndWith(WriteHead(r, 200, "text/plain; charset=utf-8"), EndText(content))
       ELSE ResEndWith(WriteHead(r, 500, "text/plain; charset=utf-8"), <<>>)

\* response-processors.js:175-199  processChat on a success response
processChat(bres, r) ==
  LET parsed == JsonParse(bres.body)
      content == Or(Get(parsed.val, "choices.0.message.content"),
                 Or(Get(parsed.val, "message"),
                 Or(Get(parsed.val, "answer"), Get(parsed.val, "value"))))
      head == WriteHeadCors(r, 200, "text/plain; charset=utf-8")
  IN IF parsed.ok THEN ResEndWith(head, EndText(content))
     ELSE ResEndWith(head, bres.body)

\* response-processors.js:275-287  processGenerate on a success response
processGenerate(bres, r) ==
  ResEndWith(WriteHeadCors(r, 200, "application/json; charset=utf-8"), bres.body)

\* response-processors.js:301-319  processCaRag on a success response
processCaRag(bres, r) ==
  LET parsed == JsonParse(bres.body)
      answer == Or(Get(parsed.val, "state.chat.answer"), Get(parsed.val, "answer"))
      head == WriteHeadCors(r, 200, "text/plain; charset=utf-8")
  IN IF parsed.ok /\ Truthy(answer) THEN ResEndWith(head, <<answer.v>>)
     ELSE ResEndWith(head, bres.body)

\* response-processors.js:168-200
ProcessChat ==
  /\ ppc = "start"
  /\ Ok(backendRes.status)
  /\ proc = "chat"
  /\ res' = processChat(backendRes, res)
  /\ ppc' = "returned"
  /\ UNCHANGED <<gwVars, valVars, proc, backendRes, pending, buffer, sawDone,
               buildVars, exitVars, uiVars>>

\* response-processors.js:268-288
ProcessGenerate ==
  /\ ppc = "start"
  /\ Ok(backendRes.status)
  /\ proc = "generate"
  /\ res' = processGenerate(backendRes, res)
  /\ ppc' = "returned"
  /\ UNCHANGED <<gwVars, valVars, proc, backendRes, pending, buffer, sawDone,
               buildVars, exitVars, uiVars>>

\* response-processors.js:294-320
ProcessCaRag ==
  /\ ppc = "start"
  /\ Ok(backendRes.status)
  /\ proc = "caRag"
  /\ res' = processCaRag(backendRes, res)
  /\ ppc' = "returned"
  /\ UNCHANGED <<gwVars, valVars, proc, backendRes, pending, buffer, sawDone,
               buildVars, exitVars, uiVars>>

(* Backend bodies *)

\* longest backend body, in lines
MaxLines == 2

DataLine(text) == <<"data:", " ">> \o text

StreamLines ==
  {DataLine(<<"{choices:[{delta:{content:a}}]}">>),
   DataLine(DoneBracketed),
   DataLine(DonePlain),
   DataLine(<<"{value:v}">>),
   DataLine(<<"{oops">>),
   <<"{error:boom}">>,
   <<"intermediate_data:", " ", "{id:s1,status:in_progress,name:Step1}">>,
   <<"junk">>,
   DataLine(<<"{value:}">>),
   DataLine(<<"{value:1}">>),
   <<"intermediate_data:", " ", "{error:boom}">>,
   <<"intermediate_data:", " ", "{oops">>,
   <<"intermediate_data:", " ">> \o NameHoldsPrefix,
   <<"observability_trace:", " ", "{observability_trace_id:t1}">>,
   <<"observability_trace:", " ", "{oops">>}

RECURSIVE JoinLines(_)
JoinLines(ls) ==
  IF Len(ls) = 1 THEN ls[1] ELSE ls[1] \o <<NL>> \o JoinLines(Tail(ls))

\* bodies of the non-streaming endpoints: one JSON text
JsonBodies ==
  {<<"{choices:[{message:{content:hello}}]}">>,
   <<"{choices:[{message:{content:hello}}],message:m}">>,
   <<"{message:m,answer:yes}">>, <<"{answer:yes,value:v}">>, <<"{value:v}">>,
   <<"{state:{chat:{answer:42}}}">>, <<"{error:boom}">>}

\* up to MaxLines lines, the last one with or without its newline
BodyUniverse ==
  {<<>>} \cup JsonBodies \cup
  UNION {{JoinLines(ls), JoinLines(ls) \o <<NL>>} :
           ls \in UNION {[1..n -> StreamLines] : n \in 1..MaxLines}}

ProcStatuses == {200, 404, 500}

InitProc ==
  /\ initializedCaRagConversations = {}
  /\ reqs = <<>>
  /\ wsPublicPath = <<"", "ws">>
  /\ ValIdle
  /\ proc \in Processors
  /\ backendRes \in {[status |-> st, body |-> b] :
                       st \in ProcStatuses, b \in BodyUniverse}
  /\ pending = backendRes.body
  /\ buffer = <<>>
  /\ res = FreshRes
  /\ ppc = "start"
  /\ sawDone = FALSE
  /\ BuildIdle
  /\ UiIdle
  /\ ExitIdle

NextProc ==
  \/ ProcMirrorsError
  \/ StreamBegins
  \/ \E n \in 1..Len(pending) : ReadChunk(n)
  \/ ReadDone
  \/ ReadError
  \/ ProcessChat
  \/ ProcessGenerate
  \/ ProcessCaRag

SpecProc == InitProc /\ [][NextProc]_vars

\* lines of the streams relayed to a client that may go away
CancelLines ==
  {DataLine(<<"{choices:[{delta:{content:a}}]}">>),
   DataLine(<<"{value:v}">>),
   DataLine(DoneBracketed),
   <<"intermediate_data:", " ", "{id:s1,status:in_progress,name:Step1}">>}

CancelBodies ==
  UNION {{JoinLines(ls), JoinLines(ls) \o <<NL>>} :
           ls \in UNION {[1..n -> CancelLines] : n \in 1..MaxLines}}

\* a streaming processor relaying a successful backend response
InitCancel ==
  /\ initializedCaRagConversations = {}
  /\ reqs = <<>>
  /\ wsPublicPath = <<"", "ws">>
  /\ ValIdle
  /\ proc \in StreamProcessors
  /\ backendRes \in {[status |-> 200, body |-> b] : b \in CancelBodies}
  /\ pending = backendRes.body
  /\ buffer = <<>>
  /\ res = FreshRes
  /\ ppc = "start"
  /\ sawDone = FALSE
  /\ BuildIdle
  /\ UiIdle
  /\ ExitIdle

NextCancel ==
  \/ StreamBegins
  \/ \E n \in 1..Len(pending) : ReadChunk(n)
  \/ ReadDone
  \/ ReadError
  \/ ClientDisconnects

\* the streaming processors with a client that can disconnect mid-stream
SpecCancel == InitCancel /\ [][NextCancel]_vars

-----------------------------------------------------------------------------
(* Properties of the response processors (SpecProc) *)

\* C8, as claimed: a streaming processor that has returned has called
\* res.end() exactly once, on every path.
C8_EndCalledExactlyOnce ==
  (proc \in StreamProcessors /\ ppc = "returned") => res.endCalls = 1

IsDoneLine(line) ==
  /\ StartsWithPrefix(line, "data:")
  /\ Trim(SubSeq(line, 3, Len(line))) \in {DoneBracketed, DonePlain}

\* the newline-terminated lines of a body
CompleteLines(body) == SubSeq(SplitNL(body), 1, Len(SplitNL(body)) - 1)

\* the body's lines that precede its first DONE line
LinesBeforeDone(body) ==
  LET lines == CompleteLines(body)
      dones == {i \in 1..Len(lines) : IsDoneLine(lines[i])}
  IN IF dones = {} THEN lines
     ELSE SubSeq(lines, 1, (CHOOSE i \in dones : \A j \in dones : i <= j) - 1)

ChatExample ==
  DataLine(<<"{choices:[{delta:{content:a}}]}">>) \o <<NL>>
    \o DataLine(DoneBracketed) \o <<NL>>

\* C9: once the chat stream processor has processed a DONE line the response
\* is ended, the processor has returned, and the client has been written
\* exactly the output of the lines before that line: no later line, later
\* chunk or trailing buffer is written, before or after the end. The stream
\* "data: {content a}\n" "data: [DONE]\n" yields exactly "a".
C9_NothingWrittenAfterDone ==
  (proc = "chatStream" /\ sawDone) =>
    /\ ppc = "returned"
    /\ res.ended
    /\ res.lateWrites = 0
    /\ res.writes = ProcessLines("chatStream", LinesBeforeDone(backendRes.body),
                                 FreshRes).res.writes
    /\ backendRes.body = ChatExample => ClientText(res.writes) = <<"a">>

\* C9 witness: the claim's stream has been processed up to its DONE line and
\* the client holds "a".
C9_Witness ==
  /\ proc = "chatStream"
  /\ backendRes = [status |-> 200, body |-> ChatExample]
  /\ sawDone
  /\ ClientText(res.writes) = <<"a">>

\* C10: each of the five processors answers a non-success backend response
\* with the backend's status code and the backend's raw body, as one piece of
\* plain text.
C10_BackendErrorMirrored ==
  (proc \in Processors /\ ppc = "returned" /\ ~Ok(backendRes.status)) =>
    /\ res.statusCode = backendRes.status
    /\ res.ended
    /\ \A i \in 1..Len(res.writes) : res.writes[i].kind = "text"
    /\ ClientText(res.writes) = backendRes.body

\* C10 witness: the chat stream processor mirrored a 500 whose body is a data
\* line, unextracted.
C10_Witness ==
  /\ proc = "chatStream"
  /\ backendRes = [status |-> 500,
                   body |-> DataLine(<<"{choices:[{delta:{content:a}}]}">>) \o <<NL>>]
  /\ ppc = "returned"
  /\ res.statusCode = 500
  /\ ClientText(res.writes) = backendRes.body

Present(parsed, path) == path \in DOMAIN parsed

\* the text the non-streaming chat processor is said to answer for a JSON body
ChatExpectedText(body) ==
  LET parsed == JsonParse(body).val
  IN IF Present(parsed, "choices.0.message.content")
       THEN <<parsed["choices.0.message.content"].v>>
     ELSE IF Present(parsed, "message") THEN <<parsed["message"].v>>
     ELSE IF Present(parsed, "answer") THEN <<parsed["answer"].v>>
     ELSE IF Present(parsed, "value") THEN <<parsed["value"].v>>
     ELSE body

\* C11, as claimed: for a success response whose body parses as JSON the chat
\* processor answers 200 with the first choice's message content, else the
\* 'message' field, else 'answer', else 'value', and the raw backend text when
\* the body has none of them.
C11_ChatExtractsOrPassesThrough ==
  (proc = "chat" /\ ppc = "returned" /\ Ok(backendRes.status)
     /\ JsonParse(backendRes.body).ok) =>
    /\ res.statusCode = 200
    /\ ClientText(res.writes) = ChatExpectedText(backendRes.body)

\* C12: for the chat, generate and stateful-workflow-call processors, a
\* success response whose body is not valid JSON is answered 200 with the raw
\* body text unchanged, as one ended response; never a 5xx, and never an empty
\* body for a body that is not empty.
C12_InvalidJsonPassedThrough ==
  (proc \in {"chat", "generate", "caRag"} /\ ppc = "returned"
     /\ Ok(backendRes.status) /\ ~JsonParse(backendRes.body).ok) =>
    /\ res.statusCode = 200
    /\ res.endCalls = 1
    /\ ClientText(res.writes) = backendRes.body
    /\ backendRes.body # <<>> => ClientText(res.writes) # <<>>

\* C12 witness: the chat processor was handed a truncated JSON text and the
\* client holds it unchanged.
C12_Witness ==
  /\ proc = "chat"
  /\ backendRes = [status |-> 200, body |-> DataLine(<<"{oops">>)]
  /\ ppc = "returned"
  /\ res.statusCode = 200
  /\ ClientText(res.writes) = DataLine(<<"{oops">>)

\* a line 'intermediate_data: <JSON object>'
IsIntermediateLine(line) ==
  /\ StartsWithPrefix(line, "intermediate_data:")
  /\ JsonParse(SubSeq(line, 3, Len(line))).ok

\* the name and status an intermediate_data line announces
StepOf(line) ==
  LET payload == JsonParse(SubSeq(line, 3, Len(line))).val
  IN [name |-> IF Present(payload, "name") THEN payload["name"].v ELSE "Step",
      status |-> IF Present(payload, "status") THEN payload["status"].v
                 ELSE "in_progress"]

RECURSIVE ExpectedSteps(_)
ExpectedSteps(lines) ==
  IF lines = <<>> THEN <<>>
  ELSE (IF IsIntermediateLine(Head(lines)) THEN <<StepOf(Head(lines))>> ELSE <<>>)
       \o ExpectedSteps(Tail(lines))

\* the intermediatestep segments the client was written, in order
RECURSIVE EmittedSteps(_)
EmittedSteps(writes) ==
  IF writes = <<>> THEN <<>>
  ELSE (IF Head(writes).kind = "intermediatestep"
          THEN <<[name |-> Head(writes).msg.name, status |-> Head(writes).msg.status]>>
          ELSE <<>>)
       \o EmittedSteps(Tail(writes))

\* the whole backend stream was read, or it was read up to its DONE line
StreamConsumed ==
  /\ proc \in StreamProcessors
  /\ ppc = "returned"
  /\ Ok(backendRes.status)
  /\ (sawDone \/ pending = <<>>)

\* C13, as claimed: the intermediatestep segments written to the client are,
\* in order, one per complete 'intermediate_data: <JSON object>' line of the
\* stream, each carrying that line's name and status ('Step' and
\* 'in_progress' when absent), and no other line produces one.
C13_OneStepPerIntermediateLine ==
  StreamConsumed =>
    EmittedSteps(res.writes) = ExpectedSteps(LinesBeforeDone(backendRes.body))

Payload(line) == SubSeq(line, 3, Len(line))

\* a line that the 'data: ', 'intermediate_data: ' or 'observability_trace: '
\* rule cannot parse, or that has no recognised shape
DroppedLine(line) ==
  \/ /\ StartsWithPrefix(line, "data:")
     /\ ~IsDoneLine(line)
     /\ ~JsonParse(Payload(line)).ok
  \/ /\ StartsWithPrefix(line, "intermediate_data:")
     /\ ~JsonParse(Payload(line)).ok
  \/ /\ StartsWithPrefix(line, "observability_trace:")
     /\ ~JsonParse(Payload(line)).ok
  \/ /\ ~StartsWithPrefix(line, "data:")
     /\ ~StartsWithPrefix(line, "intermediate_data:")
     /\ ~StartsWithPrefix(line, "observability_trace:")
     /\ ~StartsWithBrace(Trim(line))

RECURSIVE WithoutDropped(_)
WithoutDropped(lines) ==
  IF lines = <<>> THEN <<>>
  ELSE (IF DroppedLine(Head(lines)) THEN <<>> ELSE <<Head(lines)>>)
       \o WithoutDropped(Tail(lines))

\* the text after the body's last newline
TrailingText(body) == SplitNL(body)[Len(SplitNL(body))]

\* what the client may hold once the stream is consumed, given the output of
\* the complete lines: that output, followed by the trailing text when the
\* stream ended without DONE and the trailing text is a JSON line
ConsumedWrites(lineWrites) ==
  {lineWrites} \cup
  (IF sawDone THEN {}
   ELSE {processRemainingBuffer(TrailingText(backendRes.body),
                                [FreshRes EXCEPT !.writes = lineWrites]).writes})

\* C14: in both streaming processors a line that does not parse under its
\* rule, or that has no recognised shape, writes nothing and does not abort
\* the stream: the client holds exactly what the stream without those lines
\* produces, every later well-formed line included, and the response ends
\* with status 200.
C14_DroppedLinesAreSilent ==
  StreamConsumed =>
    /\ \A i \in 1..Len(CompleteLines(backendRes.body)) :
         DroppedLine(CompleteLines(backendRes.body)[i]) =>
           StreamLine(proc, CompleteLines(backendRes.body)[i], FreshRes)
             = [res |-> FreshRes, done |-> FALSE]
    /\ res.writes \in
         ConsumedWrites(ProcessLines(proc,
                          WithoutDropped(LinesBeforeDone(backendRes.body)),
                          FreshRes).res.writes)
    /\ res.ended
    /\ res.statusCode = 200

\* C14 witness: a chat stream whose first data line is truncated JSON and
\* whose second carries "a" was consumed, and the client holds "a".
C14_Witness ==
  /\ proc = "chatStream"
  /\ backendRes = [status |-> 200,
                   body |-> DataLine(<<"{oops">>) \o <<NL>>
                              \o DataLine(<<"{choices:[{delta:{content:a}}]}">>)
                              \o <<NL>>]
  /\ ppc = "returned"
  /\ pending = <<>>
  /\ res.ended
  /\ ClientText(res.writes) = <<"a">>

\* the output of the generate stream's complete lines; claimed: a data line is
\* forwarded whole when its 'value' is string-typed; otherwise: the line's
\* trimmed payload is forwarded when its 'value' is a non-empty string
RECURSIVE GenerateExpected(_, _, _)
GenerateExpected(lines, r, claimed) ==
  IF lines = <<>> THEN r
  ELSE LET line == Head(lines)
           value == Get(JsonParse(Payload(line)).val, "value")
           forwards == /\ JsonParse(Payload(line)).ok
                       /\ value.t = "string"
                       /\ (claimed \/ value.v # "")
           text == IF claimed THEN line ELSE Trim(Payload(line))
       IN GenerateExpected(Tail(lines),
            IF StartsWithPrefix(line, "data:")
              THEN (IF forwards THEN ResWrite(r, TextItem(text)) ELSE r)
              ELSE processCommonLineTypes(line, r),
            claimed)

-----------------------------------------------------------------------------
(* request-transformers.js                                                 *)
(*                                                                         *)
(* The optional-parameters string is a sequence of tokens: "," and "=" are *)
(* tokens of their own, a well-formed JSON text is one token, any other    *)
(* token is a piece of text with no comma and no equals sign in it. Object *)
(* keys and values are token sequences, so that split and trim act on them *)
(* as on text.                                                             *)

\* longest comma-separated list, in pairs
MaxPairs == 2

\* s.split(sep)
RECURSIVE SplitOn(_, _)
SplitOn(s, sep) ==
  IF \E i \in 1..Len(s) : s[i] = sep
    THEN LET i == CHOOSE k \in 1..Len(s) :
                    s[k] = sep /\ \A j \in 1..(k - 1) : s[j] # sep
         IN <<SubSeq(s, 1, i - 1)>> \o SplitOn(SubSeq(s, i + 1, Len(s)), sep)
    ELSE <<s>>

BVal(t, v) == [t |-> t, v |-> v]

NoParams == [k \in {} |-> BVal("undefined", <<>>)]

\* JSON.parse of one token of the optional-parameters string
ParseParamsToken(tok) ==
  CASE tok = "{}" -> [ok |-> TRUE, isNull |-> FALSE, val |-> NoParams]
    [] tok = "{temperature:0.2}" ->
         [ok |-> TRUE, isNull |-> FALSE,
          val |-> (<<"temperature">> :> BVal("number", <<"0.2">>))]
    [] tok = "{model:x}" ->
         [ok |-> TRUE, isNull |-> FALSE,
          val |-> (<<"model">> :> BVal("string", <<"x">>))]
    [] tok = "{messages:[],stream:true}" ->
         [ok |-> TRUE, isNull |-> FALSE,
          val |-> (<<"messages">> :> BVal("array", <<>>)
                   @@ <<"stream">> :> BVal("boolean", <<"true">>))]
    [] tok = "{stream:false,top_p:0.5}" ->
         [ok |-> TRUE, isNull |-> FALSE,
          val |-> (<<"stream">> :> BVal("boolean", <<"false">>)
                   @@ <<"top_p">> :> BVal("number", <<"0.5">>))]
    [] tok = "[x]" ->
         [ok |-> TRUE, isNull |-> FALSE,
          val |-> (<<"0">> :> BVal("string", <<"x">>))]
    [] tok = "5" -> [ok |-> TRUE, isNull |-> FALSE, val |-> NoParams]
    [] tok = "null" -> [ok |-> TRUE, isNull |-> TRUE, val |-> NoParams]
    [] OTHER -> [ok |-> FALSE, isNull |-> FALSE, val |-> NoParams]

\* JSON.parse of the optional-parameters string
ParseParamsJson(s) ==
  IF Len(Trim(s)) = 1
    THEN ParseParamsToken(Trim(s)[1])
    ELSE [ok |-> FALSE, isNull |-> FALSE, val |-> NoParams]

NumericTokens == {"0.2", "0.5", "1"}

\* request-transformers.js:29-32  'true'/'false', else a number, else the text
Coerce(value) ==
  IF value = <<"true">> \/ value = <<"false">> THEN BVal("boolean", value)
  ELSE IF Len(value) = 1 /\ value[1] \in NumericTokens THEN BVal("number", value)
  ELSE BVal("string", value)

\* request-transformers.js:26  const [key, value] = pair.split('=').map(trim)
PairKey(pair) == Trim(SplitOn(pair, "=")[1])
PairValue(pair) ==
  IF Len(SplitOn(pair, "=")) >= 2 THEN Trim(SplitOn(pair, "=")[2]) ELSE <<>>

\* request-transformers.js:25-34  for (const pair of pairs)
RECURSIVE ParsePairs(_, _)
ParsePairs(pairs, params) ==
  IF pairs = <<>> THEN params
  ELSE LET key == PairKey(Head(pairs))
           value == PairValue(Head(pairs))
       IN ParsePairs(Tail(pairs),
            IF key # <<>> /\ value # <<>>
              THEN [k \in DOMAIN params \cup {key} |->
                      IF k = key THEN Coerce(value) ELSE params[k]]
              ELSE params)

\* faulty variant: a string that is not JSON yields no parameters
parseOptionalParamsJsonOnly(paramsString) ==
  IF Trim(paramsString) = <<>> THEN [isNull |-> FALSE, val |-> NoParams]
  ELSE [isNull |-> ParseParamsJson(paramsString).isNull,
        val |-> ParseParamsJson(paramsString).val]

\* request-transformers.js:12-38
parseOptionalParams(paramsString) ==
  IF Trim(paramsString) = <<>> THEN [isNull |-> FALSE, val |-> NoParams]
  ELSE IF ParseParamsJson(paramsString).ok
    THEN [isNull |-> ParseParamsJson(paramsString).isNull,
          val |-> ParseParamsJson(paramsString).val]
    ELSE [isNull |-> FALSE,
          val |-> ParsePairs(SplitOn(paramsString, ","), NoParams)]

\* request-transformers.js:77, 116
RESERVED_FIELDS == {<<"messages">>, <<"stream">>}

\* request-transformers.js:79-84, 118-123
DefaultPayload(messages, useChatHistory, stream) ==
  <<"messages">> :> BVal("array", IF useChatHistory THEN messages
                                  ELSE <<messages[Len(messages)]>>)
  @@ <<"model">> :> BVal("string", <<"nvidia/nemotron">>)
  @@ <<"stream">> :> BVal("boolean", <<IF stream THEN "true" ELSE "false">>)
  @@ <<"temperature">> :> BVal("number", <<"0.7">>)

\* faulty variant: every parsed key is merged, reserved or not
MergeParamsUnfiltered(p, parsedParams) ==
  [k \in DOMAIN p \cup DOMAIN parsedParams |->
     IF k \in DOMAIN parsedParams THEN parsedParams[k] ELSE p[k]]

\* request-transformers.js:92-96, 131-135  Object.keys(parsedParams).forEach
MergeParams(p, parsedParams) ==
  [k \in DOMAIN p \cup (DOMAIN parsedParams \ RESERVED_FIELDS) |->
     IF k \in DOMAIN parsedParams \ RESERVED_FIELDS THEN parsedParams[k] ELSE p[k]]

\* request-transformers.js:86-100, 125-139  Object.keys(null) throws, the
\* catch leaves the payload as it is
WithOptionalParams(p, optionalParams) ==
  IF Trim(optionalParams) = <<>> THEN p
  ELSE IF parseOptionalParams(optionalParams).isNull THEN p
  ELSE MergeParams(p, parseOptionalParams(optionalParams).val)

\* request-transformers.js:75-103
buildChatPayload(messages, useChatHistory, optionalParams) ==
  WithOptionalParams(DefaultPayload(messages, useChatHistory, FALSE), optionalParams)

\* request-transformers.js:114-142
buildChatStreamPayload(messages, useChatHistory, optionalParams) ==
  WithOptionalParams(DefaultPayload(messages, useChatHistory, TRUE), optionalParams)

BuildChat ==
  /\ bArgs.builder = "chat"
  /\ built = <<>>
  /\ built' = buildChatPayload(bArgs.messages, bArgs.useChatHistory,
                               bArgs.optionalParams)
  /\ UNCHANGED <<gwVars, valVars, procVars, bArgs, exitVars, uiVars>>

BuildChatStream ==
  /\ bArgs.builder = "chatStream"
  /\ built = <<>>
  /\ built' = buildChatStreamPayload(bArgs.messages, bArgs.useChatHistory,
                                     bArgs.optionalParams)
  /\ UNCHANGED <<gwVars, valVars, procVars, bArgs, exitVars, uiVars>>

(* Builder arguments *)

ParamsJsonTexts ==
  {<<"{}">>, <<"{temperature:0.2}">>, <<"{model:x}">>,
   <<"{messages:[],stream:true}">>, <<"{stream:false,top_p:0.5}">>,
   <<"[x]">>, <<"5">>, <<"null">>, <<" ", "{model:x}", " ">>}

PairTexts ==
  {<<"temperature", "=", "0.2">>, <<"stream", "=", "true">>,
   <<" ", "messages", " ", "=", " ", "x">>, <<"model", "=", "x">>,
   <<"flag", "=", "false">>, <<"top_p">>, <<"=", "x">>,
   <<"{top_p:0.5">>, <<"{a", "=", "b}">>}

RECURSIVE JoinPairs(_)
JoinPairs(ps) ==
  IF Len(ps) = 1 THEN ps[1] ELSE ps[1] \o <<",">> \o JoinPairs(Tail(ps))

ParamsUniverse ==
  {<<>>, <<" ">>} \cup ParamsJsonTexts \cup
  {JoinPairs(ps) : ps \in UNION {[1..n -> PairTexts] : n \in 1..MaxPairs}}

MessageLists == {<<"m1">>, <<"m1", "m2">>}

InitBuild ==
  /\ initializedCaRagConversations = {}
  /\ reqs = <<>>
  /\ wsPublicPath = <<"", "ws">>
  /\ ValIdle
  /\ ProcIdle
  /\ bArgs \in [builder : {"chat", "chatStream"}, messages : MessageLists,
                useChatHistory : BOOLEAN, optionalParams : ParamsUniverse]
  /\ built = <<>>
  /\ UiIdle
  /\ ExitIdle

NextBuild ==
  \/ BuildChat
  \/ BuildChatStream

\* the chat payload builders as pure functions of their arguments
SpecBuild == InitBuild /\ [][NextBuild]_vars

-----------------------------------------------------------------------------
(* Properties of the payload builders (SpecBuild) *)

\* the optional parameters name this key, as a JSON object key or as the key
\* of a key=value pair
NamesKey(optionalParams, key) ==
  \/ key \in DOMAIN ParseParamsJson(optionalParams).val
  \/ /\ ~ParseParamsJson(optionalParams).ok
     /\ \E i \in 1..Len(SplitOn(optionalParams, ",")) :
          /\ PairKey(SplitOn(optionalParams, ",")[i]) = key
          /\ PairValue(SplitOn(optionalParams, ",")[i]) # <<>>

ComputedMessages ==
  IF bArgs.useChatHistory THEN bArgs.messages
  ELSE <<bArgs.messages[Len(bArgs.messages)]>>

EndpointStreams == bArgs.builder = "chatStream"

\* C16: whatever the optional parameters say about 'messages' or 'stream', as
\* a JSON object or as key=value pairs, the payload's 'messages' is the list
\* the builder computed and its 'stream' is the endpoint's flag: false for
\* chat, true for chat-stream.
C16_ReservedKeysKeepBuilderValues ==
  built # <<>> =>
    /\ built[<<"messages">>] = BVal("array", ComputedMessages)
    /\ built[<<"stream">>] =
         BVal("boolean", <<IF EndpointStreams THEN "true" ELSE "false">>)

\* C16 witness: the chat builder was given parameters that set 'stream' to
\* true and 'messages' to an empty list, and returned stream false and the
\* last message.
C16_Witness ==
  /\ bArgs = [builder |-> "chat", messages |-> <<"m1", "m2">>,
              useChatHistory |-> FALSE,
              optionalParams |-> <<"{messages:[],stream:true}">>]
  /\ built # <<>>
  /\ built[<<"stream">>] = BVal("boolean", <<"false">>)
  /\ built[<<"messages">>] = BVal("array", <<"m2">>)

\* C17, as claimed: whatever 'model' the optional parameters carry, the
\* payload's 'model' is the builder's fixed model identifier.
C17_ModelIsFixed ==
  built # <<>> => built[<<"model">>] = BVal("string", <<"nvidia/nemotron">>)

BuilderDefault ==
  DefaultPayload(bArgs.messages, bArgs.useChatHistory, EndpointStreams)

NotJson(optionalParams) == ~ParseParamsJson(optionalParams).ok

\* C18, as claimed: for an optional-parameters string that is not well-formed
\* JSON the builder returns the default payload, with no extra keys.
C18_NotJsonGivesDefaults ==
  (built # <<>> /\ NotJson(bArgs.optionalParams)) => built = BuilderDefault

\* the pairs of the comma-separated reading that have a key and a value
NamedPairs(optionalParams) ==
  {i \in 1..Len(SplitOn(optionalParams, ",")) :
     /\ PairKey(SplitOn(optionalParams, ",")[i]) # <<>>
     /\ PairValue(SplitOn(optionalParams, ",")[i]) # <<>>}

\* the value of the last pair that names the key
LastValue(optionalParams, key) ==
  LET pairs == SplitOn(optionalParams, ",")
      named == {i \in NamedPairs(optionalParams) : PairKey(pairs[i]) = key}
  IN PairValue(pairs[CHOOSE i \in named : \A j \in named : j <= i])

\* C18, amended: for an optional-parameters string that is not well-formed
\* JSON the builder returns a payload, read from the string as a
\* comma-separated key=value list: every pair with a key and a value sets
\* that key to its coerced value unless the key is 'messages' or 'stream',
\* every other key keeps its default, and a string with no such pair gives
\* exactly the default payload.
C18_NotJsonReadAsPairs ==
  (built # <<>> /\ NotJson(bArgs.optionalParams)) =>
    /\ DOMAIN BuilderDefault \subseteq DOMAIN built
    /\ \A k \in DOMAIN built :
         IF k \notin RESERVED_FIELDS /\ NamesKey(bArgs.optionalParams, k)
           THEN built[k] = Coerce(LastValue(bArgs.optionalParams, k))
           ELSE k \in DOMAIN BuilderDefault /\ built[k] = BuilderDefault[k]
    /\ \A i \in NamedPairs(bArgs.optionalParams) :
         PairKey(SplitOn(bArgs.optionalParams, ",")[i]) \in
           DOMAIN built \cup RESERVED_FIELDS
    /\ NamedPairs(bArgs.optionalParams) = {} => built = BuilderDefault

\* C18 witness: the chat-stream builder was given a truncated JSON text
\* followed by temperature=0.2; it returned the default payload with the
\* temperature replaced.
C18_Witness ==
  /\ bArgs.builder = "chatStream"
  /\ bArgs.optionalParams = <<"{top_p:0.5", ",", "temperature", "=", "0.2">>
  /\ built # <<>>
  /\ built = [BuilderDefault EXCEPT ![<<"temperature">>] = BVal("number", <<"0.2">>)]

-----------------------------------------------------------------------------
(* server.js:421-452  shutdown *)

\* connections the model follows
MaxConns == 2

\* termination signals the process is sent
MaxSignals == 3

Signals == {"SIGTERM", "SIGINT"}

\* a connection is absent, an HTTP connection, a socket upgraded to
\* WebSocket, closed by its peer, or destroyed by the server
OpenConn == {"http", "ws"}

\* server.getConnections: the sockets the server holds
Count(conns) == Cardinality({c \in DOMAIN conns : conns[c] \in OpenConn})

\* server.closeAllConnections() destroys the established HTTP connections;
\* a socket upgraded to another protocol is no longer the HTTP server's
closeAllConnections(conns) ==
  [c \in DOMAIN conns |-> IF conns[c] = "http" THEN "destroyed" ELSE conns[c]]

\* a client connects; a server that was closed accepts nobody
Connect(c, kind) ==
  /\ exited = "no"
  /\ srv.listening
  /\ srv.conns[c] = "none"
  /\ srv' = [srv EXCEPT !.conns[c] = kind]
  /\ UNCHANGED <<gwVars, valVars, procVars, buildVars, isShuttingDown,
                 sigListeners, exited, uiVars>>

\* a connection ends on its own
ConnCloses(c) ==
  /\ exited = "no"
  /\ srv.conns[c] \in OpenConn
  /\ srv' = [srv EXCEPT !.conns[c] = "closed"]
  /\ UNCHANGED <<gwVars, valVars, procVars, buildVars, isShuttingDown,
                 sigListeners, exited, uiVars>>

\* server.js:424-449  cleanExit, on the server record
cleanExit(shuttingDown, server) ==
  IF shuttingDown THEN server
  ELSE [server EXCEPT !.forceExitArmed = TRUE,
                      !.forceExitTimers = @ + 1,
                      !.listening = FALSE,
                      !.closeCalls = @ + 1,
                      !.closePending = TRUE,
                      !.getConnectionsPending = TRUE]

\* server.js:451-452  process.once(signal, ...): the listener is removed when
\* it runs; a signal that has no listener takes its default action and ends
\* the process
Signal(sig) ==
  /\ exited = "no"
  /\ srv.signals < MaxSignals
  /\ IF sig \in sigListeners
       THEN /\ sigListeners' = sigListeners \ {sig}
            /\ isShuttingDown' = TRUE
            /\ srv' = [cleanExit(isShuttingDown, srv) EXCEPT !.signals = @ + 1]
            /\ exited' = exited
       ELSE /\ exited' = "killed"
            /\ srv' = [srv EXCEPT !.signals = @ + 1]
            /\ UNCHANGED <<sigListeners, isShuttingDown>>
  /\ UNCHANGED <<gwVars, valVars, procVars, buildVars, uiVars>>

\* server.js:443-448  the callback of server.getConnections
GetConnections ==
  /\ exited = "no"
  /\ srv.getConnectionsPending
  /\ srv' = [srv EXCEPT !.getConnectionsPending = FALSE,
                        !.conns = IF Count(@) > 0 THEN closeAllConnections(@)
                                  ELSE @]
  /\ UNCHANGED <<gwVars, valVars, procVars, buildVars, isShuttingDown,
                 sigListeners, exited, uiVars>>

\* server.js:437-440  the callback of server.close: every connection has ended
ServerClosed ==
  /\ exited = "no"
  /\ srv.closePending
  /\ Count(srv.conns) = 0
  /\ srv' = [srv EXCEPT !.closePending = FALSE, !.forceExitArmed = FALSE]
  /\ exited' = "exit"
  /\ UNCHANGED <<gwVars, valVars, procVars, buildVars, isShuttingDown, sigListeners,
               uiVars>>

\* server.js:431-434  the 2000 ms timer fires
ForceExit ==
  /\ exited = "no"
  /\ srv.forceExitArmed
  /\ srv' = [srv EXCEPT !.forceExitArmed = FALSE, !.graceElapsed = TRUE]
  /\ exited' = "exit"
  /\ UNCHANGED <<gwVars, valVars, procVars, buildVars, isShuttingDown, sigListeners,
               uiVars>>

InitShutdown ==
  /\ initializedCaRagConversations = {}
  /\ reqs = <<>>
  /\ wsPublicPath = <<"", "ws">>
  /\ ValIdle
  /\ ProcIdle
  /\ BuildIdle
  /\ UiIdle
  /\ isShuttingDown = FALSE
  /\ sigListeners = Signals
  /\ srv = [listening |-> TRUE, conns |-> [c \in 1..MaxConns |-> "none"],
            closeCalls |-> 0, closePending |-> FALSE,
            forceExitTimers |-> 0, forceExitArmed |-> FALSE,
            getConnectionsPending |-> FALSE, graceElapsed |-> FALSE,
            signals |-> 0]
  /\ exited = "no"

NextShutdown ==
  \/ \E c \in 1..MaxConns, kind \in OpenConn : Connect(c, kind)
  \/ \E c \in 1..MaxConns : ConnCloses(c)
  \/ \E sig \in Signals : Signal(sig)
  \/ GetConnections
  \/ ServerClosed
  \/ ForceExit

\* the gateway process from listening to exit
SpecShutdown == InitShutdown /\ [][NextShutdown]_vars

-----------------------------------------------------------------------------
(* Properties of shutdown (SpecShutdown) *)

\* C19, as claimed: once shutdown has started, a further termination signal
\* of either kind changes nothing: the process keeps running its one shutdown
\* sequence, with no second server close and no second exit timer.
C19_FurtherSignalIsNoOp ==
  [][(isShuttingDown /\ srv'.signals # srv.signals) =>
       /\ exited' = exited
       /\ isShuttingDown' = isShuttingDown
       /\ srv'.closeCalls = srv.closeCalls
       /\ srv'.forceExitTimers = srv.forceExitTimers
       /\ srv'.conns = srv.conns]_vars

\* C20, as claimed: once a termination signal has been handled the server no
\* longer accepts connections, and a connection is destroyed by the server
\* only after the grace period has elapsed.
C20_ForceCloseOnlyAfterGrace ==
  isShuttingDown =>
    /\ ~srv.listening
    /\ \A c \in DOMAIN srv.conns :
         srv.conns[c] = "destroyed" => srv.graceElapsed

-----------------------------------------------------------------------------
(* Properties of the response processors, continued (SpecProc, SpecCancel) *)

\* C21, as claimed: the response a processor has produced from a backend
\* response, on its success path and on its mirrored-error path, carries the
\* Access-Control-Allow-Origin and Access-Control-Allow-Credentials headers.
C21_CorsOnEveryBackendResponse ==
  ppc = "returned" => CorsHeaders \subseteq res.headers

\* C23: in both streaming processors the response is always ended once the
\* headers are sent: a processor that has returned has ended the response, and
\* every step that leaves the read loop (the whole body read, a DONE line, or
\* a read that throws) has called res.end().
C23_StreamAlwaysEnded ==
  /\ [](proc \in StreamProcessors /\ ppc = "returned" => res.ended)
  /\ [][(proc \in StreamProcessors /\ ppc = "reading" /\ ppc' # "reading") =>
          (ppc' = "returned" /\ res'.ended /\ res'.endCalls >= 1)]_vars

\* C23 witness: a chat stream's read rejected after part of the body had been
\* read and before any DONE line; the response is ended.
C23_Witness ==
  /\ proc = "chatStream"
  /\ Ok(backendRes.status)
  /\ ppc = "returned"
  /\ ~sawDone
  /\ pending # <<>>
  /\ Len(pending) < Len(backendRes.body)
  /\ res.headersSent
  /\ res.ended

\* C24, as claimed: once the client has disconnected the processor issues no
\* further read on the backend body; at most the read that was already
\* pending resolves.
C24_NoReadsAfterDisconnect ==
  ppc \in {"reading", "returned"} => res.readsAfterGone <= 1

\* C33: when the read loop of a streaming processor ends because the backend
\* closed the stream (no DONE line was processed), the text left after the
\* body's last newline is written, trimmed, if and only if it begins with
\* '{' after trimming; a trailing data line or a trailing 'data: [DONE]'
\* without its newline writes nothing; and the response is ended, once.
C33_RemainingBufferFlushed ==
  [][ReadDone =>
       /\ ~sawDone
       /\ buffer = TrailingText(backendRes.body)
       /\ res'.writes =
            IF StartsWithBrace(Trim(buffer))
              THEN Append(res.writes, TextItem(Trim(buffer)))
              ELSE res.writes
       /\ StartsWithPrefix(buffer, "data:") => res'.writes = res.writes
       /\ res'.ended
       /\ res'.endCalls = 1
       /\ ppc' = "returned"]_vars

\* C33 witness: a chat stream of one content line and an unterminated
\* 'data: [DONE]' was read to its end: the client holds "a" only, the
\* response is ended and no DONE line was processed.
C33_Witness ==
  /\ proc = "chatStream"
  /\ backendRes = [status |-> 200,
                   body |-> DataLine(<<"{choices:[{delta:{content:a}}]}">>)
                              \o <<NL>> \o DataLine(DoneBracketed)]
  /\ ppc = "returned"
  /\ ~sawDone
  /\ buffer = DataLine(DoneBracketed)
  /\ res.ended
  /\ ClientText(res.writes) = <<"a">>
  /\ res.splits = {"line", "sentinel"}

\* what the processor writes when the whole body arrives as one chunk
OneChunkWrites(p, body) ==
  LET o == ProcessLines(p, CompleteLines(body), FreshRes)
  IN IF o.done THEN o.res.writes
     ELSE processRemainingBuffer(TrailingText(body), o.res).writes

IsPrefixOf(a, b) == Len(a) <= Len(b) /\ a = SubSeq(b, 1, Len(a))

\* C37: the client output of a streaming processor does not depend on how
\* the backend stream is cut into chunks: at every moment the writes are a
\* prefix of what the stream arriving as one chunk produces, and when the
\* processor returns after a DONE line or after the end of the stream they
\* are exactly that, wherever the chunk boundaries fell.
C37_ChunkingIndependent ==
  /\ []((proc \in StreamProcessors /\ Ok(backendRes.status)) =>
          IsPrefixOf(res.writes, OneChunkWrites(proc, backendRes.body)))
  /\ [][(ReadDone \/ \E n \in 1..Len(pending) : ReadChunk(n)) /\ ppc' = "returned" =>
          /\ res'.writes = OneChunkWrites(proc, backendRes.body)
          /\ ClientText(res'.writes)
               = ClientText(OneChunkWrites(proc, backendRes.body))]_vars

\* C37 witness: the chat stream "data: {content a}\n" "data: [DONE]\n" was
\* read in chunks that stopped inside 'data: ', inside a line and inside
\* '[DONE]'; the DONE line was processed and the client holds "a".
C37_Witness ==
  /\ proc = "chatStream"
  /\ backendRes = [status |-> 200, body |-> ChatExample]
  /\ sawDone
  /\ ppc = "returned"
  /\ res.splits = {"prefix", "line", "sentinel"}
  /\ ClientText(res.writes) = <<"a">>

-----------------------------------------------------------------------------
(* Properties of the gateway, continued (Spec) *)

\* bodies of the three 502 answers of server.js:120-129, 231-237, 284-295
JsonErrorBodies ==
  {"json:Bad Gateway", "json:CA RAG request failed", "json:Backend unavailable"}

\* C22: a request whose outbound fetch (the forwarded call or the init call)
\* or proxy connection failed has been answered 502 with a JSON error body;
\* an answered request never changes again, and the failure sends nothing
\* more to the backend (no retry).
C22_UnreachableBackendIs502 ==
  /\ [](\A r \in DOMAIN reqs :
          reqs[r].threw =>
            /\ reqs[r].pc = "done"
            /\ reqs[r].status = 502
            /\ reqs[r].body \in JsonErrorBodies)
  /\ [][\A r \in DOMAIN reqs :
          /\ reqs[r].pc = "done" => reqs'[r] = reqs[r]
          /\ (~reqs[r].threw /\ reqs'[r].threw) => reqs'[r].out = reqs[r].out]_vars

\* C22 witness: the forwarded call of a core route failed and was answered 502
C22_Witness ==
  \E r \in DOMAIN reqs :
    /\ reqs[r].route \in ProcessorRoutes
    /\ reqs[r].out = {"fetch"}
    /\ reqs[r].threw
    /\ reqs[r].status = 502
    /\ reqs[r].body = "json:Bad Gateway"

\* C25: an OPTIONS request to a path under the API prefix is answered at once
\* with 204, no body and the four preflight headers, whatever the validator
\* says of the path, and nothing is sent to the backend or the dev server.
C25_PreflightIsImmediate ==
  \A r \in DOMAIN reqs :
    (/\ reqs[r].kind = "http"
     /\ reqs[r].method = HTTP_METHOD_OPTIONS
     /\ StartsWithSlash(reqs[r].pathname, HTTP_PROXY_PATH))
    => /\ reqs[r].pc = "done"
       /\ reqs[r].status = 204
       /\ reqs[r].body = ""
       /\ reqs[r].headers = PreflightHeaders
       /\ reqs[r].out = {}

\* C25 witness: a preflight to a path the validator rejects, answered 204
C25_Witness ==
  \E r \in DOMAIN reqs :
    /\ reqs[r].kind = "http"
    /\ reqs[r].method = HTTP_METHOD_OPTIONS
    /\ StartsWithSlash(reqs[r].pathname, HTTP_PROXY_PATH)
    /\ ~validateProxyHttpPath(reqs[r].pathname).isValid
    /\ reqs[r].status = 204

\* C26: an upgrade on the configured WebSocket path is validated and, when
\* valid, relayed to the backend on the fixed backend path with its query
\* string unchanged (when invalid it is refused); an upgrade on any other path
\* goes to the dev server with path and query untouched, never to the backend.
C26_UpgradeRouting ==
  \A r \in DOMAIN reqs :
    reqs[r].kind = "ws" =>
      IF reqs[r].pathname = wsPublicPath
        THEN IF validateProxyWebSocketPath(reqs[r].pathname).isValid
               THEN /\ reqs[r].out = {"wsBackend"}
                    /\ reqs[r].url = WEBSOCKET_BACKEND_PATH
                    /\ reqs[r].fwdSearch = reqs[r].search
               ELSE /\ reqs[r].out = {}
                    /\ reqs[r].sockWrite = "HTTP/1.1 403 Forbidden"
                    /\ reqs[r].destroyed
        ELSE /\ reqs[r].out = {"wsNext"}
             /\ reqs[r].url = reqs[r].pathname
             /\ reqs[r].fwdSearch = reqs[r].search

\* C26 witness: an upgrade on the WebSocket path with a query string, relayed
\* to the backend with that query string
C26_Witness ==
  \E r \in DOMAIN reqs :
    /\ reqs[r].kind = "ws"
    /\ reqs[r].pathname = wsPublicPath
    /\ reqs[r].search # ""
    /\ reqs[r].out = {"wsBackend"}
    /\ reqs[r].url = WEBSOCKET_BACKEND_PATH
    /\ reqs[r].fwdSearch = reqs[r].search

\* C36: every HTTP request the gateway sends toward the backend (the
\* processors' fetch, the /init call, the transparent proxy) connects to the
\* configured upstream origin; the client's path and query string appear in
\* it only as its path (the request path without the proxy prefix, or /init)
\* and its query string.
C36_OutboundTargetsUpstream ==
  \A r \in DOMAIN reqs :
    /\ reqs[r].out \cap {"fetch", "init", "proxy"} # {} =>
         reqs[r].target = UPSTREAM_HTTP_ORIGIN
    /\ reqs[r].out \cap {"fetch", "proxy"} # {} =>
         /\ reqs[r].url = StripPrefix(reqs[r].pathname, HTTP_PROXY_PATH)
         /\ reqs[r].fwdSearch = reqs[r].search
    /\ reqs[r].pc = "init" =>
         /\ reqs[r].target = UPSTREAM_HTTP_ORIGIN
         /\ InitUrl = UPSTREAM_HTTP_ORIGIN \o <<"/", "init">>
    /\ reqs[r].out \cap {"next", "wsNext"} # {} =>
         reqs[r].target # UPSTREAM_HTTP_ORIGIN

\* C36 witness: GET /api/chat?next=//evil.com was forwarded by fetch to the
\* upstream origin with path /chat and that query string.
C36_Witness ==
  \E r \in DOMAIN reqs :
    /\ reqs[r].pathname = ApiPath(CHAT)
    /\ reqs[r].search = "?next=//evil.com"
    /\ reqs[r].out = {"fetch"}
    /\ reqs[r].target = UPSTREAM_HTTP_ORIGIN
    /\ reqs[r].url = CHAT
    /\ reqs[r].fwdSearch = "?next=//evil.com"

-----------------------------------------------------------------------------
(* utils/app/settingsValidation.ts: the validators of the settings dialog  *)
(*                                                                         *)
(* A string is a sequence of tokens: whitespace, text that is not JSON, or *)
(* one JSON value. A JSON value is [t, members]: t is its kind and an      *)
(* object lists its members as written, a key possibly more than once.     *)

\* most members written in one object of the input
MaxMembers == 2

JLeaf(t) == [t |-> t, members |-> <<>>]
JObj(ms) == [t |-> "obj", members |-> ms]
Member(k, v) == [k |-> k, v |-> v]
WS == JLeaf("ws")
NotJsonText == JLeaf("garbage")
JUndefined == JLeaf("undefined")

\* settingsValidation.ts:1-26
CHAT_OPTIONAL_GENERATION_RESERVED_FIELDS == {"messages", "stream"}
WEBSOCKET_CUSTOM_PARAMS_TOP_KEYS == {"query", "headers", "payload"}
WEBSOCKET_QUERY_RESERVED_KEYS == {"session", "conversation_id"}
WEBSOCKET_PAYLOAD_RESERVED_KEYS ==
  {"type", "id", "conversation_id", "content", "schema_type", "thread_id",
   "parent_id", "timestamp"}

RECURSIVE TrimStart(_)
TrimStart(s) ==
  IF s # <<>> /\ s[1].t = "ws" THEN TrimStart(Tail(s)) ELSE s

RECURSIVE TrimEnd(_)
TrimEnd(s) ==
  IF s # <<>> /\ s[Len(s)].t = "ws" THEN TrimEnd(SubSeq(s, 1, Len(s) - 1)) ELSE s

\* String.prototype.trim
trim(s) == TrimEnd(TrimStart(s))

\* JSON.parse throws unless the text is one JSON value, whitespace around it
\* allowed
JsonThrows(s) == ~(Len(trim(s)) = 1 /\ trim(s)[1].t # "garbage")
\* JSON.parse of a text that does not throw
JSONparse(s) == trim(s)[1]

RECURSIVE DistinctKeys(_, _)
DistinctKeys(ms, seen) ==
  IF ms = <<>> THEN <<>>
  ELSE IF ms[1].k \in seen THEN DistinctKeys(Tail(ms), seen)
  ELSE <<ms[1].k>> \o DistinctKeys(Tail(ms), seen \cup {ms[1].k})

\* Object.keys: each key once, in the order first written
ObjectKeys(v) == DistinctKeys(v.members, {})

\* v[k]: the value written last for the key, undefined when it is absent
Prop(v, k) ==
  LET at == {i \in 1..Len(v.members) : v.members[i].k = k}
  IN IF at = {} THEN JUndefined
     ELSE v.members[CHOOSE i \in at : \A j \in at : j <= i].v

typeof(v) ==
  CASE v.t \in {"obj", "arr", "null"} -> "object"
    [] v.t = "str" -> "string"
    [] v.t = "num" -> "number"
    [] v.t = "bool" -> "boolean"
    [] OTHER -> "undefined"

\* x != null
NotNullish(v) == v.t \notin {"null", "undefined"}

\* the keys of list.filter(k => set.has(k)), in order
FilterKeys(keys, set) == SelectSeq(keys, LAMBDA k : k \in set)

\* what a validator returns: `keys` is the list joined into the error text
SettingsOk == [isValid |-> TRUE, error |-> "", keys |-> <<>>]
SettingsError(error, keys) == [isValid |-> FALSE, error |-> error, keys |-> keys]

\* faulty variant: the error lists every reserved field
conflictingFieldsListsAll(parsed) ==
  IF FilterKeys(ObjectKeys(parsed), CHAT_OPTIONAL_GENERATION_RESERVED_FIELDS) = <<>>
    THEN <<>>
    ELSE <<"messages", "stream">>

\* settingsValidation.ts:42-45
conflictingFields(parsed) ==
  FilterKeys(ObjectKeys(parsed), CHAT_OPTIONAL_GENERATION_RESERVED_FIELDS)

\* settingsValidation.ts:28-58
validateOptionalGenerationJson(jsonString) ==
  IF trim(jsonString) = <<>> THEN SettingsOk
  ELSE IF JsonThrows(jsonString) THEN SettingsError("Invalid JSON format", <<>>)
  ELSE LET parsed == JSONparse(jsonString) IN
    IF typeof(parsed) # "object" \/ parsed.t = "null" \/ parsed.t = "arr"
      THEN SettingsError("JSON must be a valid object (not array or null)", <<>>)
    ELSE IF Len(conflictingFields(parsed)) > 0
      THEN SettingsError("Cannot override reserved fields: ",
                         conflictingFields(parsed))
    ELSE SettingsOk

\* faulty variant: the payload section is not looked at
payloadUsedNone(payload) == <<>>

\* settingsValidation.ts:105-108
payloadUsed(payload) ==
  FilterKeys(ObjectKeys(payload), WEBSOCKET_PAYLOAD_RESERVED_KEYS)

\* settingsValidation.ts:81-82
used(query) == FilterKeys(ObjectKeys(query), WEBSOCKET_QUERY_RESERVED_KEYS)

\* settingsValidation.ts:70
extraKeys(parsed) ==
  SelectSeq(ObjectKeys(parsed), LAMBDA k : k \notin WEBSOCKET_CUSTOM_PARAMS_TOP_KEYS)

\* settingsValidation.ts:78, 91, 102  typeof x !== 'object' || Array.isArray(x)
NotAnObject(v) == typeof(v) # "object" \/ v.t = "arr"

\* settingsValidation.ts:94-96  an entry whose value is no string and no number
nonString(headers) ==
  \E k \in {headers.members[i].k : i \in 1..Len(headers.members)} :
    typeof(Prop(headers, k)) \notin {"string", "number"}

\* settingsValidation.ts:60-120
validateWebSocketCustomParams(jsonString) ==
  IF trim(jsonString) = <<>> THEN SettingsOk
  ELSE IF JsonThrows(jsonString) THEN SettingsError("Invalid JSON", <<>>)
  ELSE LET parsed == JSONparse(jsonString) IN
    IF typeof(parsed) # "object" \/ parsed.t = "null" \/ parsed.t = "arr"
      THEN SettingsError("Must be a JSON object", <<>>)
    ELSE IF Len(extraKeys(parsed)) > 0
      THEN SettingsError(
             "Top-level keys must be one of: query, headers, payload. Found: ",
             extraKeys(parsed))
    ELSE LET query == Prop(parsed, "query")
             headers == Prop(parsed, "headers")
             payload == Prop(parsed, "payload")
    IN IF NotNullish(query) /\ NotAnObject(query)
         THEN SettingsError("query must be an object", <<>>)
       ELSE IF NotNullish(query) /\ Len(used(query)) > 0
         THEN SettingsError("query: reserved keys cannot be used", used(query))
       ELSE IF NotNullish(headers) /\ NotAnObject(headers)
         THEN SettingsError("headers must be an object", <<>>)
       ELSE IF NotNullish(headers) /\ nonString(headers)
         THEN SettingsError("headers values must be strings or numbers.", <<>>)
       ELSE IF NotNullish(payload) /\ NotAnObject(payload)
         THEN SettingsError("payload must be an object", <<>>)
       ELSE IF NotNullish(payload) /\ Len(payloadUsed(payload)) > 0
         THEN SettingsError("payload: reserved keys cannot be used",
                            payloadUsed(payload))
       ELSE SettingsOk

-----------------------------------------------------------------------------
(* The strings typed into the settings dialog *)

Str == JLeaf("str")
Num == JLeaf("num")

\* values written for a section of the WebSocket custom parameters
SectionValues ==
  {JObj(<<Member("tenant_id", Str)>>),
   JObj(<<Member("session", Str)>>),
   JObj(<<Member("conversation_id", Str)>>),
   JObj(<<Member("conversation_id", Str), Member("session", Str)>>),
   JObj(<<Member("tenant_id", Str), Member("type", Str)>>),
   JObj(<<Member("type", Str), Member("content", Str)>>),
   JObj(<<Member("X-Tenant", Num)>>),
   JObj(<<Member("X-Flag", JLeaf("bool"))>>),
   JLeaf("null"), Str, JLeaf("arr")}

WsMembers ==
  {Member(k, v) : k \in {"query", "headers", "payload", "body"},
                  v \in SectionValues}

OptMembers ==
  {Member("messages", JLeaf("arr")), Member("stream", JLeaf("bool")),
   Member("temperature", Num), Member("max_tokens", Num)}

ObjectTexts ==
  {JObj(ms) : ms \in UNION {[1..n -> WsMembers] : n \in 0..MaxMembers}}
  \cup {JObj(ms) : ms \in UNION {[1..n -> OptMembers] : n \in 1..MaxMembers}}

ScalarTexts ==
  {JLeaf("null"), JLeaf("arr"), Str, Num, JLeaf("bool"), NotJsonText}

SettingsTexts ==
  {<<>>, <<WS>>, <<WS, WS>>}
  \cup {<<v>> : v \in ObjectTexts \cup ScalarTexts}
  \cup {<<WS, v, WS>> : v \in ScalarTexts \cup {JObj(<<m>>) : m \in OptMembers}}
  \cup {<<JObj(<<>>), NotJsonText>>}

\* settingsValidation.ts:28  a call of validateOptionalGenerationJson
ValidateOptionalGenerationJson ==
  /\ sResult = <<>>
  /\ sResult' = [fn |-> "validateOptionalGenerationJson",
                 r |-> validateOptionalGenerationJson(sInput)]
  /\ UNCHANGED <<gwVars, valVars, procVars, buildVars, exitVars, sInput, modal,
               guide, streams>>

\* settingsValidation.ts:60  a call of validateWebSocketCustomParams
ValidateWebSocketCustomParams ==
  /\ sResult = <<>>
  /\ sResult' = [fn |-> "validateWebSocketCustomParams",
                 r |-> validateWebSocketCustomParams(sInput)]
  /\ UNCHANGED <<gwVars, valVars, procVars, buildVars, exitVars, sInput, modal,
               guide, streams>>

InitSettings ==
  /\ initializedCaRagConversations = {}
  /\ reqs = <<>>
  /\ wsPublicPath = <<"", "ws">>
  /\ ValIdle
  /\ ProcIdle
  /\ BuildIdle
  /\ ExitIdle
  /\ sInput \in SettingsTexts
  /\ sResult = <<>>
  /\ modal = <<>>
  /\ guide = <<>>
  /\ streams = <<>>

NextSettings ==
  \/ ValidateOptionalGenerationJson
  \/ ValidateWebSocketCustomParams

\* the settings validators as pure functions of the typed string
SpecSettings == InitSettings /\ [][NextSettings]_vars

-----------------------------------------------------------------------------
(* Properties of the settings validators (SpecSettings) *)

\* the string holds nothing but whitespace
IsBlank(s) == \A i \in 1..Len(s) : s[i].t = "ws"
\* the tokens of the string that are not whitespace
NonWs(s) == SelectSeq(s, LAMBDA x : x.t # "ws")
\* the string is the text of one JSON object
IsObjectText(s) == Len(NonWs(s)) = 1 /\ NonWs(s)[1].t = "obj"
\* the keys written in an object; none for any other value
KeysWritten(v) == {v.members[i].k : i \in 1..Len(v.members)}
\* the elements of a list
Named(keys) == {keys[i] : i \in 1..Len(keys)}
\* the list names every element once
NoRepeat(keys) == Cardinality(Named(keys)) = Len(keys)
OptionalResult ==
  sResult # <<>> /\ sResult.fn = "validateOptionalGenerationJson"
WsResult ==
  sResult # <<>> /\ sResult.fn = "validateWebSocketCustomParams"

\* C27: validateOptionalGenerationJson accepts a blank string, rejects every
\* string that is not the text of a JSON object, rejects an object holding a
\* reserved key with an error that names exactly the reserved keys it holds,
\* each once, and accepts every other object.
C27_OptionalGenerationJson ==
  OptionalResult =>
    LET r == sResult.r IN
    IF IsBlank(sInput) THEN r.isValid /\ r.error = ""
    ELSE IF ~IsObjectText(sInput) THEN ~r.isValid /\ r.error # ""
    ELSE LET present == KeysWritten(NonWs(sInput)[1])
                          \cap CHAT_OPTIONAL_GENERATION_RESERVED_FIELDS
         IN IF present # {}
              THEN /\ ~r.isValid
                   /\ r.error = "Cannot override reserved fields: "
                   /\ Named(r.keys) = present
                   /\ NoRepeat(r.keys)
              ELSE r.isValid /\ r.error = ""

\* C27 witness: an object with the reserved key 'messages' and a key that is
\* not reserved, rejected with an error that names 'messages' alone
C27_Witness ==
  /\ OptionalResult
  /\ IsObjectText(sInput)
  /\ KeysWritten(NonWs(sInput)[1]) = {"messages", "temperature"}
  /\ ~sResult.r.isValid
  /\ sResult.r.keys = <<"messages">>

\* the one JSON value of the string
Top(s) == NonWs(s)[1]
\* a section that is written and not null
SectionGiven(v) == v.t \notin {"null", "undefined"}
\* the reserved keys written in a section
ReservedIn(v, reserved) == KeysWritten(v) \cap reserved
\* every value of the headers section is a string or a number
HeaderValuesOk(h) == \A k \in KeysWritten(h) : Prop(h, k).t \in {"str", "num"}
\* the top-level keys that are none of query, headers, payload
ExtraTopKeys(s) == KeysWritten(Top(s)) \ WEBSOCKET_CUSTOM_PARAMS_TOP_KEYS

\* C28: validateWebSocketCustomParams accepts a blank string and rejects
\* every string that is not the text of a JSON object; it rejects an object
\* with a top-level key other than query, headers, payload; otherwise the
\* sections are looked at in the order query, headers, payload and the first
\* one at fault decides: a section that is given and is not an object is
\* rejected, a query or payload holding reserved keys is rejected with an
\* error naming exactly the reserved keys of that section, headers with a
\* value that is no string and no number are rejected; an object with no
\* section at fault is accepted.
C28_WebSocketCustomParams ==
  WsResult =>
    LET r == sResult.r IN
    IF IsBlank(sInput) THEN r.isValid /\ r.error = ""
    ELSE IF ~IsObjectText(sInput) THEN ~r.isValid /\ r.error # ""
    ELSE LET query == Prop(Top(sInput), "query")
             headers == Prop(Top(sInput), "headers")
             payload == Prop(Top(sInput), "payload")
         IN IF ExtraTopKeys(sInput) # {}
              THEN ~r.isValid /\ Named(r.keys) = ExtraTopKeys(sInput)
            ELSE IF SectionGiven(query) /\ query.t # "obj"
              THEN ~r.isValid /\ r.error = "query must be an object"
            ELSE IF ReservedIn(query, WEBSOCKET_QUERY_RESERVED_KEYS) # {}
              THEN /\ ~r.isValid
                   /\ r.error = "query: reserved keys cannot be used"
                   /\ Named(r.keys) =
                        ReservedIn(query, WEBSOCKET_QUERY_RESERVED_KEYS)
                   /\ NoRepeat(r.keys)
            ELSE IF SectionGiven(headers) /\ headers.t # "obj"
              THEN ~r.isValid /\ r.error = "headers must be an object"
            ELSE IF ~HeaderValuesOk(headers)
              THEN ~r.isValid
                   /\ r.error = "headers values must be strings or numbers."
            ELSE IF SectionGiven(payload) /\ payload.t # "obj"
              THEN ~r.isValid /\ r.error = "payload must be an object"
            ELSE IF ReservedIn(payload, WEBSOCKET_PAYLOAD_RESERVED_KEYS) # {}
              THEN /\ ~r.isValid
                   /\ r.error = "payload: reserved keys cannot be used"
                   /\ Named(r.keys) =
                        ReservedIn(payload, WEBSOCKET_PAYLOAD_RESERVED_KEYS)
                   /\ NoRepeat(r.keys)
            ELSE r.isValid /\ r.error = ""

\* C28, as claimed: blank input is accepted and input that is not a JSON
\* object rejected; a top-level key other than query, headers, payload, a
\* query holding 'session' or 'conversation_id' and a payload holding a
\* reserved payload key are rejected; an error about a section names exactly
\* the reserved keys used in it; and an object whose sections hold no
\* reserved key and whose header values are strings or numbers is accepted.
C28_NoReservedKeyMeansAccepted ==
  WsResult =>
    LET r == sResult.r IN
    /\ IsBlank(sInput) => r.isValid
    /\ (~IsBlank(sInput) /\ ~IsObjectText(sInput)) => ~r.isValid
    /\ (~IsBlank(sInput) /\ IsObjectText(sInput)) =>
         LET query == Prop(Top(sInput), "query")
             headers == Prop(Top(sInput), "headers")
             payload == Prop(Top(sInput), "payload")
             queryUsed == ReservedIn(query, WEBSOCKET_QUERY_RESERVED_KEYS)
             payloadKeys == ReservedIn(payload, WEBSOCKET_PAYLOAD_RESERVED_KEYS)
         IN /\ ExtraTopKeys(sInput) # {} => ~r.isValid
            /\ queryUsed # {} => ~r.isValid
            /\ payloadKeys # {} => ~r.isValid
            /\ r.error = "query: reserved keys cannot be used"
                 => Named(r.keys) = queryUsed
            /\ r.error = "payload: reserved keys cannot be used"
                 => Named(r.keys) = payloadKeys
            /\ (/\ ExtraTopKeys(sInput) = {}
                /\ queryUsed = {}
                /\ payloadKeys = {}
                /\ HeaderValuesOk(headers)) => r.isValid

\* C28 witness: an object whose query and headers are in order and whose
\* payload holds the reserved keys 'type' and 'content', rejected with an
\* error that names those two
C28_Witness ==
  /\ WsResult
  /\ IsObjectText(sInput)
  /\ KeysWritten(Top(sInput)) = {"query", "payload"}
  /\ Prop(Top(sInput), "query") = JObj(<<Member("tenant_id", Str)>>)
  /\ KeysWritten(Prop(Top(sInput), "payload")) = {"type", "content"}
  /\ ~sResult.r.isValid
  /\ sResult.r.keys = <<"type", "content">>

-----------------------------------------------------------------------------
(* components: InteractionModal, its countdown and its submit handler.     *)
(* remainingSeconds and content.timeout are <<>> for null/undefined and    *)
(* <<n>> for the number n. An event is taken together with the render and  *)
(* the effects that follow it.                                             *)

\* largest content.timeout, in seconds
MaxTimeout == 2
\* seconds followed after an opening
MaxSeconds == 4
\* times the parent opens the modal
MaxOpenings == 2
\* accepted submits followed in one opening
MaxSubmits == 2

DefaultTimeoutError == "This prompt is no longer available."

\* InteractionModal.tsx:59-60  typeof timeout === 'number' && timeout > 0
HasCountdown(content) == content.timeout # <<>> /\ content.timeout[1] > 0

\* InteractionModal.tsx:49-54
clearTimer(m) == [m EXCEPT !.intervalRef = FALSE]

\* faulty variant: content.error is ignored
ToastTextDefaultOnly(content) == DefaultTimeoutError

\* InteractionModal.tsx:83  content?.error || 'This prompt is no longer available.'
ToastText(content) ==
  IF content.error # "" THEN content.error ELSE DefaultTimeoutError

\* InteractionModal.tsx:56-78  the effect on [isOpen, interactionMessage?.id],
\* run for an open modal
StartCountdown(m) ==
  IF HasCountdown(m.content)
    THEN [m EXCEPT !.remainingSeconds = m.content.timeout,
                   !.isTimedOut = FALSE, !.intervalRef = TRUE]
    ELSE [m EXCEPT !.remainingSeconds = <<>>]

\* InteractionModal.tsx:80-86  the effect on remainingSeconds and isTimedOut
TimeoutEffect(m) ==
  IF m.remainingSeconds = <<0>> /\ ~m.isTimedOut
    THEN [m EXCEPT !.isTimedOut = TRUE,
                   !.toasts = Append(@, ToastText(m.content)),
                   !.onCloseCalls = @ + 1,
                   !.everTimedOut = TRUE]
    ELSE m

\* faulty variant: the interval is left running when the countdown ends
IntervalFiresKeepsRunning(m) ==
  LET prev == m.remainingSeconds IN
  IF prev = <<>> \/ prev[1] <= 1
    THEN [m EXCEPT !.remainingSeconds = <<0>>]
    ELSE [m EXCEPT !.remainingSeconds = <<prev[1] - 1>>]

\* InteractionModal.tsx:65-73  the interval's callback
IntervalFires(m) ==
  LET prev == m.remainingSeconds IN
  IF prev = <<>> \/ prev[1] <= 1
    THEN [clearTimer(m) EXCEPT !.remainingSeconds = <<0>>]
    ELSE [m EXCEPT !.remainingSeconds = <<prev[1] - 1>>]

\* faulty variant: closing keeps what the user typed and the error
ResetOnCloseKeepsInput(m) ==
  clearTimer([m EXCEPT !.remainingSeconds = <<>>, !.isTimedOut = FALSE])

\* InteractionModal.tsx:88-96  the effect on [isOpen], run for a closed modal
ResetOnClose(m) ==
  clearTimer([m EXCEPT !.userInput = "", !.error = "", !.remainingSeconds = <<>>,
                       !.isTimedOut = FALSE])

\* faulty variant: the submit leaves the interval running
submitResponseKeepsTimer(m, response) ==
  IF m.isTimedOut THEN m
  ELSE [m EXCEPT !.error = "",
                 !.onSubmitCalls = Append(@, response),
                 !.onCloseCalls = @ + 1,
                 !.submitAt = <<m.elapsed>>,
                 !.attempts = Append(@, [response |-> response,
                                         accepted |-> TRUE])]

\* InteractionModal.tsx:100-107
submitResponse(m, response) ==
  IF m.isTimedOut THEN m
  ELSE [clearTimer(m) EXCEPT !.error = "",
                             !.onSubmitCalls = Append(@, response),
                             !.onCloseCalls = @ + 1,
                             !.submitAt = <<m.elapsed>>,
                             !.attempts = Append(@, [response |-> response,
                                                     accepted |-> TRUE])]

\* String.prototype.trim of the texts typed
IsBlankText(text) == text \in {"", " "}

\* a handler's early return after setError: the attempt is history
Refused(m, response, error) ==
  [m EXCEPT !.error = error,
            !.attempts = Append(@, [response |-> response, accepted |-> FALSE])]

\* InteractionModal.tsx:109-115
handleTextSubmit(m) ==
  IF m.content.required /\ IsBlankText(m.userInput)
    THEN Refused(m, m.userInput, "This field is required.")
    ELSE submitResponse(m, m.userInput)

\* InteractionModal.tsx:117-123
handleChoiceSubmit(m, option) ==
  IF m.content.required /\ option = ""
    THEN Refused(m, option, "Please select an option.")
    ELSE submitResponse(m, option)

\* faulty variant: the radio handler trims like the text handler
handleRadioSubmitTrims(m) ==
  IF m.content.required /\ IsBlankText(m.userInput)
    THEN Refused(m, m.userInput, "Please select an option.")
    ELSE submitResponse(m, m.userInput)

\* InteractionModal.tsx:125-131
handleRadioSubmit(m) ==
  IF m.content.required /\ m.userInput = ""
    THEN Refused(m, m.userInput, "Please select an option.")
    ELSE submitResponse(m, m.userInput)

\* the parent renders the modal with isOpen true; the history of the calls
\* made starts afresh with the opening
Open ==
  /\ ~modal.isOpen
  /\ modal.openings < MaxOpenings
  /\ modal' = StartCountdown([modal EXCEPT !.isOpen = TRUE,
                                           !.openings = @ + 1,
                                           !.onSubmitCalls = <<>>,
                                           !.onCloseCalls = 0,
                                           !.toasts = <<>>,
                                           !.elapsed = 0,
                                           !.submitAt = <<>>,
                                           !.attempts = <<>>])
  /\ UNCHANGED <<gwVars, valVars, procVars, buildVars, exitVars, sInput, sResult,
               guide, streams>>

\* the parent renders the modal with isOpen false: the cleanup of the
\* countdown effect (InteractionModal.tsx:77) and the reset effect run
Close ==
  /\ modal.isOpen
  /\ modal' = ResetOnClose(clearTimer([modal EXCEPT !.isOpen = FALSE]))
  /\ UNCHANGED <<gwVars, valVars, procVars, buildVars, exitVars, sInput, sResult,
               guide, streams>>

\* the user types into the textarea or picks a radio option; both are
\* disabled once timed out (InteractionModal.tsx:181-182, 229-231)
Type(text) ==
  /\ modal.isOpen
  /\ modal.content.input_type \in {"text", "radio"}
  /\ ~modal.isTimedOut
  /\ text # modal.userInput
  /\ modal' = [modal EXCEPT !.userInput = text]
  /\ UNCHANGED <<gwVars, valVars, procVars, buildVars, exitVars, sInput, sResult,
               guide, streams>>

\* the Submit button's onClick of a text prompt; the button is disabled once
\* timed out (InteractionModal.tsx:189-191)
Submit ==
  /\ modal.isOpen
  /\ modal.content.input_type = "text"
  /\ ~modal.isTimedOut
  /\ Len(modal.attempts) < MaxSubmits
  /\ modal' = handleTextSubmit(modal)
  /\ UNCHANGED <<gwVars, valVars, procVars, buildVars, exitVars, sInput, sResult,
               guide, streams>>

\* an option button's onClick of a binary choice (InteractionModal.tsx:196-213)
SubmitChoice(option) ==
  /\ modal.isOpen
  /\ modal.content.input_type = "binary_choice"
  /\ ~modal.isTimedOut
  /\ Len(modal.attempts) < MaxSubmits
  /\ modal' = handleChoiceSubmit(modal, option)
  /\ UNCHANGED <<gwVars, valVars, procVars, buildVars, exitVars, sInput, sResult,
               guide, streams>>

\* the Submit button's onClick of a radio prompt (InteractionModal.tsx:243-249)
SubmitRadio ==
  /\ modal.isOpen
  /\ modal.content.input_type = "radio"
  /\ ~modal.isTimedOut
  /\ Len(modal.attempts) < MaxSubmits
  /\ modal' = handleRadioSubmit(modal)
  /\ UNCHANGED <<gwVars, valVars, procVars, buildVars, exitVars, sInput, sResult,
               guide, streams>>

\* one second passes: a scheduled interval fires and the timeout effect
\* follows; with no interval scheduled nothing runs
SecondPasses ==
  /\ modal.openings >= 1
  /\ modal.elapsed < MaxSeconds
  /\ modal' = [(IF modal.intervalRef THEN TimeoutEffect(IntervalFires(modal))
                ELSE modal) EXCEPT !.elapsed = @ + 1]
  /\ UNCHANGED <<gwVars, valVars, procVars, buildVars, exitVars, sInput, sResult,
               guide, streams>>

\* values of content.timeout: absent, not positive, 1..MaxTimeout
Timeouts == {<<>>, <<0>>, <<-1>>} \cup {<<t>> : t \in 1..MaxTimeout}

Contents ==
  [timeout : Timeouts, error : {"", "Custom timeout error message"},
   required : BOOLEAN, input_type : {"text", "binary_choice", "radio"}]

\* option.value of the buttons of a binary choice
ChoiceValues == {"", "continue"}

UserInputs == {"", " ", "My response"}

InitModal ==
  /\ initializedCaRagConversations = {}
  /\ reqs = <<>>
  /\ wsPublicPath = <<"", "ws">>
  /\ ValIdle
  /\ ProcIdle
  /\ BuildIdle
  /\ ExitIdle
  /\ sInput = <<>>
  /\ sResult = <<>>
  /\ guide = <<>>
  /\ streams = <<>>
  /\ modal \in {[isOpen |-> FALSE, content |-> c, userInput |-> "",
                 error |-> "", remainingSeconds |-> <<>>, isTimedOut |-> FALSE,
                 intervalRef |-> FALSE, onSubmitCalls |-> <<>>,
                 onCloseCalls |-> 0, toasts |-> <<>>, elapsed |-> 0,
                 submitAt |-> <<>>, openings |-> 0, attempts |-> <<>>,
                 everTimedOut |-> FALSE] : c \in Contents}

NextModal ==
  \/ Open
  \/ Close
  \/ \E text \in UserInputs : Type(text)
  \/ Submit
  \/ \E option \in ChoiceValues : SubmitChoice(option)
  \/ SubmitRadio
  \/ SecondPasses

\* one InteractionModal, its parent, its user and the clock
SpecModal == InitModal /\ [][NextModal]_vars

-----------------------------------------------------------------------------
(* Properties of the InteractionModal (SpecModal) *)

\* C29: an open modal with a positive timeout T, not submitted, shows T minus
\* the seconds elapsed until T seconds have passed; from then on the countdown
\* is 0, onClose has been called once and the error toast (content.error, or
\* the default text) shown once; no opening shows the toast twice. With a
\* timeout that is absent or not positive there is no countdown, no interval
\* and never a timeout.
C29_CountdownTimesOutOnce ==
  LET T == modal.content.timeout IN
  IF T # <<>> /\ T[1] > 0
    THEN /\ Len(modal.toasts) <= 1
         /\ (modal.isOpen /\ modal.onSubmitCalls = <<>>) =>
              IF modal.elapsed < T[1]
                THEN /\ modal.remainingSeconds = <<T[1] - modal.elapsed>>
                     /\ ~modal.isTimedOut
                     /\ modal.toasts = <<>>
                     /\ modal.onCloseCalls = 0
                ELSE /\ modal.remainingSeconds = <<0>>
                     /\ modal.isTimedOut
                     /\ modal.onCloseCalls = 1
                     /\ modal.toasts =
                          <<IF modal.content.error = ""
                              THEN "This prompt is no longer available."
                              ELSE modal.content.error>>
    ELSE /\ modal.remainingSeconds = <<>>
         /\ ~modal.intervalRef
         /\ ~modal.isTimedOut
         /\ modal.toasts = <<>>

\* C29 witness: a modal with timeout 2 and a custom error text, open for two
\* seconds without a submit: the custom text was shown and onClose called
C29_Witness ==
  /\ modal.isOpen
  /\ modal.content.timeout = <<2>>
  /\ modal.content.error = "Custom timeout error message"
  /\ modal.onSubmitCalls = <<>>
  /\ modal.elapsed = 2
  /\ modal.toasts = <<"Custom timeout error message">>
  /\ modal.onCloseCalls = 1

\* C30: a submit that is accepted calls onSubmit once with the response typed
\* or picked (for a binary choice, the value of the button pressed)
\* and onClose once, and leaves no interval scheduled; it happens only before
\* the timeout, and in an opening with an accepted submit the error toast is
\* never shown, however many seconds pass afterwards.
C30_SubmitStopsTimer ==
  /\ [](modal.onSubmitCalls # <<>> =>
          /\ modal.toasts = <<>>
          /\ ~modal.intervalRef
          /\ ~modal.isTimedOut)
  /\ [][(modal.isOpen /\ modal'.onSubmitCalls # modal.onSubmitCalls
           /\ modal'.openings = modal.openings) =>
          /\ modal'.onSubmitCalls =
               Append(modal.onSubmitCalls,
                      IF modal.content.input_type = "binary_choice"
                        THEN modal'.attempts[Len(modal'.attempts)].response
                        ELSE modal.userInput)
          /\ modal'.onCloseCalls = modal.onCloseCalls + 1
          /\ ~modal.isTimedOut
          /\ ~modal'.intervalRef]_vars

\* C30 witness: a modal with timeout 2 submitted with 'My response', left
\* open by the parent, two or more seconds later: no toast
C30_Witness ==
  /\ modal.isOpen
  /\ modal.content.timeout = <<2>>
  /\ modal.onSubmitCalls = <<"My response">>
  /\ modal.onCloseCalls = 1
  /\ modal.submitAt # <<>>
  /\ modal.elapsed - modal.submitAt[1] >= 2
  /\ modal.toasts = <<>>

\* the texts the submit handlers set as validation error
ValidationErrors == {"This field is required.", "Please select an option."}

\* the response counts as empty: blank text, no radio option selected, or a
\* choice button with an empty value
EmptyResponse(inputType, response) ==
  IF inputType = "text" THEN response \in {"", " "} ELSE response = ""

\* the step is a submit attempt of the current opening
SubmitAttempted ==
  /\ modal'.openings = modal.openings
  /\ Len(modal'.attempts) = Len(modal.attempts) + 1

\* the attempt the step has made
Attempt == modal'.attempts[Len(modal'.attempts)]

\* C31: a submit attempt with an empty response on a required prompt sets a
\* validation error and calls neither onSubmit nor onClose; every other
\* attempt, a later one after a refusal included, clears the error and calls
\* onSubmit with the response.
C31_RequiredResponseValidated ==
  [][SubmitAttempted =>
       IF modal.content.required
          /\ EmptyResponse(modal.content.input_type, Attempt.response)
         THEN /\ ~Attempt.accepted
              /\ modal'.error \in ValidationErrors
              /\ modal'.onSubmitCalls = modal.onSubmitCalls
              /\ modal'.onCloseCalls = modal.onCloseCalls
         ELSE /\ Attempt.accepted
              /\ modal'.error = ""
              /\ modal'.onSubmitCalls =
                   Append(modal.onSubmitCalls, Attempt.response)
              /\ modal'.onCloseCalls = modal.onCloseCalls + 1]_vars

\* C31 witness: a required radio prompt refused with nothing selected, then
\* submitted with an option picked: the error is cleared, onSubmit called once
C31_Witness ==
  /\ modal.content.required
  /\ modal.content.input_type = "radio"
  /\ modal.attempts = <<[response |-> "", accepted |-> FALSE],
                        [response |-> "My response", accepted |-> TRUE]>>
  /\ modal.error = ""
  /\ modal.onSubmitCalls = <<"My response">>

\* C38: in an opening that has timed out onSubmit is never called again,
\* whether or not the parent closes the modal; a closed modal has empty
\* input, no error, no countdown and is not timed out; and every opening
\* starts the countdown at the full timeout with a fresh interval.
C38_TimedOutBlocksSubmitAndCloseResets ==
  /\ [](~modal.isOpen =>
          /\ modal.userInput = ""
          /\ modal.error = ""
          /\ modal.remainingSeconds = <<>>
          /\ ~modal.isTimedOut
          /\ ~modal.intervalRef)
  /\ [][(modal.toasts # <<>> /\ modal'.openings = modal.openings) =>
          modal'.onSubmitCalls = modal.onSubmitCalls]_vars
  /\ [][modal'.openings # modal.openings =>
          /\ modal'.isOpen
          /\ ~modal'.isTimedOut
          /\ IF HasCountdown(modal.content)
               THEN /\ modal'.remainingSeconds = modal.content.timeout
                    /\ modal'.intervalRef
               ELSE modal'.remainingSeconds = <<>> /\ ~modal'.intervalRef]_vars

\* C38 witness: a modal that timed out in its first opening, was left open by
\* the parent for a while, then closed and reopened: the second opening
\* starts at the full timeout
C38_Witness ==
  /\ modal.everTimedOut
  /\ modal.openings = 2
  /\ modal.isOpen
  /\ modal.elapsed = 0
  /\ modal.content.timeout = <<2>>
  /\ modal.remainingSeconds = <<2>>
  /\ ~modal.isTimedOut
  /\ modal.userInput = ""

\* C40: the countdown is null or a whole number from 0 to the timeout; within
\* an opening it changes only by going down by one; and no interval is
\* scheduled once it has reached 0, once a submit was accepted, or while the
\* modal is closed.
C40_CountdownBounded ==
  /\ [](\/ modal.remainingSeconds = <<>>
        \/ /\ HasCountdown(modal.content)
           /\ modal.remainingSeconds[1] >= 0
           /\ modal.remainingSeconds[1] <= modal.content.timeout[1])
  /\ [](modal.intervalRef =>
          /\ modal.isOpen
          /\ modal.onSubmitCalls = <<>>
          /\ modal.remainingSeconds # <<>>
          /\ modal.remainingSeconds[1] >= 1)
  /\ [][(/\ modal'.remainingSeconds # modal.remainingSeconds
         /\ modal.remainingSeconds # <<>>
         /\ modal'.remainingSeconds # <<>>) =>
          /\ modal.intervalRef
          /\ modal'.elapsed = modal.elapsed + 1
          /\ modal'.remainingSeconds[1] = modal.remainingSeconds[1] - 1]_vars

\* C40 witness: a countdown of 2 that has reached 0 a second ago; no interval
\* is scheduled and the counter is still 0
C40_Witness ==
  /\ modal.isOpen
  /\ modal.content.timeout = <<2>>
  /\ modal.elapsed = 3
  /\ modal.onSubmitCalls = <<>>
  /\ modal.remainingSeconds = <<0>>
  /\ ~modal.intervalRef

-----------------------------------------------------------------------------
(* components/Chat/PromptSuggestions.tsx: the prompt guide.                *)
(* selectedCategory is <<>> for null and <<c>> for the category c.         *)

\* calls of onPromptSelect followed
MaxPrompts == 2

\* the promptSuggestions prop: the prompts of each category
promptSuggestions ==
  [c \in {"General", "Code", ""} |->
     CASE c = "General" -> <<"Summarize this", "Explain this">>
       [] c = "Code" -> <<"Write a test">>
       [] OTHER -> <<"Untitled prompt">>]

\* a selected category that JavaScript takes as true: not null, not ''
CategoryShown(g) == g.selectedCategory # <<>> /\ g.selectedCategory # <<"">>

\* faulty variant: the button hides the guide and keeps the category
ToggleGuideKeepsCategory ==
  /\ ~guide.messageIsStreaming
  /\ guide' = [guide EXCEPT !.showPromptGuide = ~@]
  /\ UNCHANGED <<gwVars, valVars, procVars, buildVars, exitVars, sInput, sResult,
               modal, streams>>

\* PromptSuggestions.tsx:61-77  the bulb button, disabled while streaming
ToggleGuide ==
  /\ ~guide.messageIsStreaming
  /\ guide' = [guide EXCEPT
       !.showPromptGuide = ~@,
       !.selectedCategory = IF guide.showPromptGuide THEN <<>> ELSE @]
  /\ UNCHANGED <<gwVars, valVars, procVars, buildVars, exitVars, sInput, sResult,
               modal, streams>>

\* PromptSuggestions.tsx:24-43  a mousedown outside the button and the menu;
\* the listener is registered while the guide is shown
ClickOutside ==
  /\ guide.showPromptGuide
  /\ guide' = [guide EXCEPT !.showPromptGuide = FALSE, !.selectedCategory = <<>>]
  /\ UNCHANGED <<gwVars, valVars, procVars, buildVars, exitVars, sInput, sResult,
               modal, streams>>

\* PromptSuggestions.tsx:51-53, 98-110  a category button, rendered while the
\* guide is shown and no category is
CategorySelect(category) ==
  /\ guide.showPromptGuide
  /\ ~CategoryShown(guide)
  /\ category \in DOMAIN promptSuggestions
  /\ guide' = [guide EXCEPT !.selectedCategory = <<category>>]
  /\ UNCHANGED <<gwVars, valVars, procVars, buildVars, exitVars, sInput, sResult,
               modal, streams>>

\* PromptSuggestions.tsx:55-57, 83-91  the Back button
BackToCategories ==
  /\ guide.showPromptGuide
  /\ CategoryShown(guide)
  /\ guide' = [guide EXCEPT !.selectedCategory = <<>>]
  /\ UNCHANGED <<gwVars, valVars, procVars, buildVars, exitVars, sInput, sResult,
               modal, streams>>

\* PromptSuggestions.tsx:45-49, 112-122  a prompt button of the category shown
PromptSelect(index) ==
  /\ guide.showPromptGuide
  /\ CategoryShown(guide)
  /\ index \in DOMAIN promptSuggestions[guide.selectedCategory[1]]
  /\ Len(guide.onPromptSelectCalls) < MaxPrompts
  /\ guide' = [guide EXCEPT
       !.onPromptSelectCalls =
          Append(@, promptSuggestions[guide.selectedCategory[1]][index]),
       !.showPromptGuide = FALSE,
       !.selectedCategory = <<>>]
  /\ UNCHANGED <<gwVars, valVars, procVars, buildVars, exitVars, sInput, sResult,
               modal, streams>>

\* PromptSuggestions.tsx:16  the parent changes the messageIsStreaming prop
StreamingChanges ==
  /\ guide' = [guide EXCEPT !.messageIsStreaming = ~@]
  /\ UNCHANGED <<gwVars, valVars, procVars, buildVars, exitVars, sInput, sResult,
               modal, streams>>

InitGuide ==
  /\ initializedCaRagConversations = {}
  /\ reqs = <<>>
  /\ wsPublicPath = <<"", "ws">>
  /\ ValIdle
  /\ ProcIdle
  /\ BuildIdle
  /\ ExitIdle
  /\ sInput = <<>>
  /\ sResult = <<>>
  /\ modal = <<>>
  /\ guide = [showPromptGuide |-> FALSE, selectedCategory |-> <<>>,
              messageIsStreaming |-> FALSE, onPromptSelectCalls |-> <<>>]
  /\ streams = <<>>

NextGuide ==
  \/ ToggleGuide
  \/ ClickOutside
  \/ \E category \in DOMAIN promptSuggestions : CategorySelect(category)
  \/ BackToCategories
  \/ \E index \in 1..2 : PromptSelect(index)
  \/ StreamingChanges

\* one PromptSuggestions component, its user and its parent
SpecGuide == InitGuide /\ [][NextGuide]_vars

-----------------------------------------------------------------------------
(* Properties of PromptSuggestions (SpecGuide) *)

\* C39: a selected category implies that the guide is shown; every step that
\* hides the guide leaves no category selected; and a step that calls
\* onPromptSelect calls it once, with a prompt of the category that was
\* selected, and hides the guide.
C39_CategoryOnlyWhileShown ==
  /\ [](guide.selectedCategory # <<>> => guide.showPromptGuide)
  /\ [][(guide.showPromptGuide /\ ~guide'.showPromptGuide) =>
          guide'.selectedCategory = <<>>]_vars
  /\ [][guide'.onPromptSelectCalls # guide.onPromptSelectCalls =>
          /\ guide.selectedCategory # <<>>
          /\ \E i \in DOMAIN promptSuggestions[guide.selectedCategory[1]] :
               guide'.onPromptSelectCalls =
                 Append(guide.onPromptSelectCalls,
                        promptSuggestions[guide.selectedCategory[1]][i])
          /\ ~guide'.showPromptGuide]_vars

\* C39 witness: the second prompt of 'General' was selected; the guide is
\* hidden, no category is selected and onPromptSelect was called once
C39_Witness ==
  /\ guide.onPromptSelectCalls = <<"Explain this">>
  /\ ~guide.showPromptGuide
  /\ guide.selectedCategory = <<>>

-----------------------------------------------------------------------------
(* response-processors.js: two streaming responses relayed at once.        *)
(* Every call of processChatStream or processGenerateStream has its own    *)
(* reader, buffer and res; the calls interleave at their awaits.           *)

Conns == {"c1", "c2"}

\* the backend streams of the two connections
ConnBodies ==
  {DataLine(<<"{choices:[{delta:{content:a}}]}">>) \o <<NL>> \o <<"{error:boom}">>,
   DataLine(<<"{value:v}">>) \o <<NL>> \o DataLine(DoneBracketed) \o <<NL>>}

\* response-processors.js:109-118, 212-221  headers sent, reader and buffer made
ConnBegins(c) ==
  /\ streams[c].ppc = "start"
  /\ streams' = [streams EXCEPT
       ![c].res = WriteHeadCors(@, 200, "text/event-stream; charset=utf-8"),
       ![c].ppc = "reading"]
  /\ UNCHANGED <<gwVars, valVars, procVars, buildVars, exitVars, sInput, sResult,
               modal, guide>>

\* one pass of connection c's while loop over the next n tokens of its stream
ConnPass(k, n) ==
  LET lines == SplitNL(k.buffer \o SubSeq(k.pending, 1, n))
      o == ProcessLines(k.proc, SubSeq(lines, 1, Len(lines) - 1), k.res)
  IN [k EXCEPT !.buffer = lines[Len(lines)],
               !.pending = SubSeq(k.pending, n + 1, Len(k.pending)),
               !.res = IF o.done THEN Finally(o.res) ELSE o.res,
               !.ppc = IF o.done THEN "returned" ELSE "reading"]

\* faulty variant: one buffer, declared outside the functions, serves every call
ConnReadChunkSharedBuffer(c, n) ==
  /\ streams[c].ppc = "reading"
  /\ n \in 1..Len(streams[c].pending)
  /\ streams' = [d \in Conns |->
                 IF d = c THEN ConnPass(streams[c], n)
                 ELSE [streams[d] EXCEPT !.buffer = ConnPass(streams[c], n).buffer]]
  /\ UNCHANGED <<gwVars, valVars, procVars, buildVars, exitVars, sInput, sResult,
               modal, guide>>

\* response-processors.js:121-155, 224-255  connection c's reader.read()
\* yields the next n tokens of its stream
ConnReadChunk(c, n) ==
  /\ streams[c].ppc = "reading"
  /\ n \in 1..Len(streams[c].pending)
  /\ streams' = [streams EXCEPT ![c] = ConnPass(@, n)]
  /\ UNCHANGED <<gwVars, valVars, procVars, buildVars, exitVars, sInput, sResult,
               modal, guide>>

\* response-processors.js:123-125, 157-162  connection c's reader.read() yields done
ConnReadDone(c) ==
  /\ streams[c].ppc = "reading"
  /\ streams[c].pending = <<>>
  /\ streams' = [streams EXCEPT
       ![c].res = Finally(processRemainingBuffer(streams[c].buffer, @)),
       ![c].ppc = "returned"]
  /\ UNCHANGED <<gwVars, valVars, procVars, buildVars, exitVars, sInput, sResult,
               modal, guide>>

\* response-processors.js:158-162  connection c's reader.read() rejects
ConnReadError(c) ==
  /\ streams[c].ppc = "reading"
  /\ streams' = [streams EXCEPT ![c].res = Finally(@), ![c].ppc = "returned"]
  /\ UNCHANGED <<gwVars, valVars, procVars, buildVars, exitVars, sInput, sResult,
               modal, guide>>

InitConns ==
  /\ initializedCaRagConversations = {}
  /\ reqs = <<>>
  /\ wsPublicPath = <<"", "ws">>
  /\ ValIdle
  /\ ProcIdle
  /\ BuildIdle
  /\ ExitIdle
  /\ sInput = <<>>
  /\ sResult = <<>>
  /\ modal = <<>>
  /\ guide = <<>>
  /\ streams \in [Conns -> {[proc |-> p, body |-> b, pending |-> b, buffer |-> <<>>,
                           res |-> FreshRes, ppc |-> "start"] :
                            p \in StreamProcessors, b \in ConnBodies}]

NextConns ==
  \/ \E c \in Conns : ConnBegins(c)
  \/ \E c \in Conns : \E n \in 1..Len(streams[c].pending) : ConnReadChunk(c, n)
  \/ \E c \in Conns : ConnReadDone(c)
  \/ \E c \in Conns : ConnReadError(c)

\* two streaming requests in flight, their reads resolving in any order
SpecConns == InitConns /\ [][NextConns]_vars

-----------------------------------------------------------------------------
(* Properties of concurrent streams (SpecConns) *)

\* the tokens of its stream that connection k has read
ConnRead(k) == SubSeq(k.body, 1, Len(k.body) - Len(k.pending))

\* C32: within each connection the client writes are, at every moment, the
\* output of the lines that have arrived, in arrival order: a prefix of what
\* the connection's own stream produces, only ever extended. A step of one
\* connection changes nothing of the other, and a connection's line buffer is
\* always the unterminated tail of what that connection itself has read.
C32_OrderedAndIsolated ==
  /\ [](\A c \in Conns :
          /\ IsPrefixOf(streams[c].res.writes,
                        OneChunkWrites(streams[c].proc, streams[c].body))
          /\ streams[c].ppc = "reading" =>
               /\ streams[c].buffer = TrailingText(ConnRead(streams[c]))
               /\ streams[c].res.writes =
                    ProcessLines(streams[c].proc, CompleteLines(ConnRead(streams[c])),
                                 FreshRes).res.writes)
  /\ [][\A c \in Conns :
          /\ IsPrefixOf(streams[c].res.writes, streams'[c].res.writes)
          /\ streams'[c] # streams[c] =>
               \A d \in Conns \ {c} : streams'[d] = streams[d]]_vars

\* C32 witness: the first connection's chat stream was relayed to its end
\* ("a", then the trailing error object) while the second connection's
\* generate stream is still being read, its buffer holding the first half
\* of its own DONE line and its client the first line's JSON text.
C32_Witness ==
  /\ streams["c1"].proc = "chatStream"
  /\ streams["c1"].ppc = "returned"
  /\ ClientText(streams["c1"].res.writes) = <<"a", "{error:boom}">>
  /\ streams["c2"].proc = "generateStream"
  /\ streams["c2"].ppc = "reading"
  /\ streams["c2"].buffer = <<"data:", " ", "[DO">>
  /\ ClientText(streams["c2"].res.writes) = <<"{value:v}">>

====
